---- MODULE Spec2Model ----
(***************************************************************************)
(* A model of the "shush" website blocker: the rule store kept in          *)
(* browser.storage.local, the schedule evaluator, the blocking decision    *)
(* (getBlockingStatus), the webRequest interceptor, the popup's rule       *)
(* mutations and the password vault of the popup.                          *)
(*                                                                         *)
(* Strings are modelled as sequences of tokens (a URL is                   *)
(* <<"https://", "example.com", "/", "blocked.html">>), so that            *)
(* startsWith, includes and new URL(u).origin are computed, and "HH:mm"    *)
(* time strings as sequences of characters, so that split(":") and         *)
(* Number() are computed.  A storage key that is absent is modelled by the *)
(* value its readers default it to ([] or {}).                             *)
(***************************************************************************)
EXTENDS Integers, Sequences, FiniteSets, TLC

VARIABLES
    now,              \* Date.now(): milliseconds since the epoch
    \* browser.storage.local
    blockedSites,     \* blockedSites: sequence of origins
    scheduledBlocks,  \* scheduledBlocks: origin -> sequence of schedules
    timerBlocks,      \* timerBlocks: origin -> [endTime, duration]
    lastBlocked,      \* lastBlocked (<<>> when absent)
    blockReason,      \* blockReason ("" when absent)
    blockedDomainsStore, \* blockedDomains: sequence of url rules
    encryptedVerifier,   \* encryptedVerifier (NoVerifier when absent)
    encryptionSalt,   \* encryptionSalt ("" when absent)
    \* browser.storage.session
    isLoggedIn,
    \* the background script
    blockedDomains,   \* its in-memory copy of the url rules
    listenerRegistered,  \* whether the redirect listener is registered
    pendingMsg,       \* the url of a redirectBlockedTab message in flight
    response,         \* the last BlockingResponse of onBeforeRequestListener
    legacyResponse,   \* the last BlockingResponse of the redirect listener
    verdict,          \* what getBlockingStatus returned in that interception
    \* the active tab
    tabUrl,
    \* the popup
    popupOpen,
    currentOrigin,    \* popup.js: currentOrigin
    actionBtn,        \* which handler actionBtn.onclick holds
    timerInterval,    \* whether the countdown interval is running
    page,             \* the page showPage displays
    message,          \* the text of the message element
    \* history: for each origin, when its timer was started and for how long
    timerLog,
    \* the handlers that are between their storage read and their storage
    \* write: startTimer, cleanupExpiredTimers, updateActiveTimerDisplay
    calls

storeVars == <<blockedSites, scheduledBlocks, timerBlocks>>

hintVars == <<lastBlocked, blockReason>>

legacyVars == <<blockedDomainsStore, blockedDomains, listenerRegistered, pendingMsg>>

requestVars == <<response, legacyResponse, verdict>>

vaultVars == <<encryptedVerifier, encryptionSalt, isLoggedIn>>

pageVars == <<page, message>>

popupVars == <<popupOpen, currentOrigin, actionBtn, timerInterval>>

vars == <<now, blockedSites, scheduledBlocks, timerBlocks, lastBlocked,
          blockReason, blockedDomainsStore, encryptedVerifier, encryptionSalt,
          isLoggedIn, blockedDomains, listenerRegistered, pendingMsg, response,
          legacyResponse, verdict, tabUrl, popupOpen, currentOrigin, actionBtn,
          timerInterval, page, message, timerLog, calls>>

-----------------------------------------------------------------------------
(* Bounds of the model *)

\* longest schedule list drawn for one origin in a rule-store snapshot
MaxSchedLen == 2

\* the clock of the running system covers this many minutes
MaxMinutes == 2

\* longest schedule list the popup is made to build for one origin
MaxSchedules == 2

-----------------------------------------------------------------------------
(* JavaScript numbers: an integer or NaN *)

NaN == [nan |-> TRUE, v |-> 0]

Num(n) == [nan |-> FALSE, v |-> n]

JsMul(a, b) == IF a.nan \/ b.nan THEN NaN ELSE Num(a.v * b.v)

JsAdd(a, b) == IF a.nan \/ b.nan THEN NaN ELSE Num(a.v + b.v)

\* a <= b and a >= b are false as soon as one side is NaN
JsLe(a, b) == ~a.nan /\ ~b.nan /\ a.v <= b.v

JsGe(a, b) == ~a.nan /\ ~b.nan /\ a.v >= b.v

-----------------------------------------------------------------------------
(* Characters and "HH:mm" strings *)

Digits == <<"0", "1", "2", "3", "4", "5", "6", "7", "8", "9">>

IsDigit(c) == \E i \in 1..10 : Digits[i] = c

DigitVal(c) == (CHOOSE i \in 1..10 : Digits[i] = c) - 1

RECURSIVE DecimalValue(_)
DecimalValue(chars) ==
    IF chars = <<>> THEN 0
    ELSE 10 * DecimalValue(SubSeq(chars, 1, Len(chars) - 1))
         + DigitVal(chars[Len(chars)])

\* Number(s) for a string of the model: "" is 0, a run of digits its value,
\* anything else NaN
JsNumber(chars) ==
    IF \A i \in 1..Len(chars) : IsDigit(chars[i])
    THEN Num(DecimalValue(chars))
    ELSE NaN

\* s.split(":")
RECURSIVE SplitColon(_)
SplitColon(chars) ==
    IF \A i \in 1..Len(chars) : chars[i] # ":"
    THEN <<chars>>
    ELSE LET k == CHOOSE i \in 1..Len(chars) :
                     /\ chars[i] = ":"
                     /\ \A j \in 1..(i - 1) : chars[j] # ":"
         IN <<SubSeq(chars, 1, k - 1)>>
            \o SplitColon(SubSeq(chars, k + 1, Len(chars)))

\* const [hour, min] = s.split(":").map(Number); hour * 60 + min
\* (a missing element is undefined, and undefined in arithmetic gives NaN)
TotalMinutes(chars) ==
    LET parts == SplitColon(chars)
        hour  == JsNumber(parts[1])
        min   == IF Len(parts) >= 2 THEN JsNumber(parts[2]) ELSE NaN
    IN JsAdd(JsMul(hour, Num(60)), min)

\* a property value that is a string, or is missing, or is of another type
Str(chars) == [kind |-> "string", chars |-> chars]

Undefined == [kind |-> "undefined", chars |-> <<>>]

\* what <input type="time"> yields for minute m of the day: "HH:mm"
TwoDigits(n) == <<Digits[(n \div 10) + 1], Digits[(n % 10) + 1]>>

HHmm(m) == TwoDigits(m \div 60) \o <<":">> \o TwoDigits(m % 60)

-----------------------------------------------------------------------------
(* The clock: Date.now() and the local wall clock read from it (the local  *)
(* time zone is taken to be UTC)                                           *)

MsPerMinute == 60 * 1000

MinutesPerDay == 24 * 60

MsPerDay == MinutesPerDay * MsPerMinute

\* new Date(t).getDay(): 0 = Sunday; 1 January 1970 was a Thursday
getDay(t) == ((t \div MsPerDay) + 4) % 7

\* new Date(t).getHours() * 60 + new Date(t).getMinutes()
currentTimeInMinutes(t) == (t % MsPerDay) \div MsPerMinute

\* the instant of weekday d (0 = Sunday), minute m of the day, ms milliseconds,
\* in the week that starts on Sunday 4 January 1970
At(d, m, ms) == (3 + d) * MsPerDay + m * MsPerMinute + ms

-----------------------------------------------------------------------------
(* URLs and origins *)

ExampleCom == <<"https://", "example.com">>

SubExampleCom == <<"https://", "sub.", "example.com">>

OtherOrg == <<"https://", "other.org">>

NullOrigin == <<"null">>

NoUrl == <<>>

ExtensionBase == <<"moz-extension://", "uuid">>

\* browser.runtime.getURL("blocked.html")
REDIRECT_URL == ExtensionBase \o <<"/", "blocked.html">>

AboutBlank == <<"about:", "blank">>

\* a BlockingResponse: {} or { redirectUrl }
Allow(url) == [url |-> url, redirectUrl |-> NoUrl]

Redirect(url, target) == [url |-> url, redirectUrl |-> target]

StartsWith(s, prefix) ==
    /\ Len(s) >= Len(prefix)
    /\ SubSeq(s, 1, Len(prefix)) = prefix

Includes(s, token) == \E i \in 1..Len(s) : s[i] = token

IsHierarchical(url) == Len(url) >= 2 /\ url[1] \in {"https://", "http://"}

\* the tokens of the host: everything between the scheme and the first "/"
HostEnd(url) ==
    IF \E i \in 3..Len(url) : url[i] = "/"
    THEN (CHOOSE i \in 3..Len(url) :
              url[i] = "/" /\ \A j \in 3..(i - 1) : url[j] # "/") - 1
    ELSE Len(url)

\* new URL(url).origin, and the url itself when it does not parse
getOrigin(url) ==
    IF IsHierarchical(url) THEN SubSeq(url, 1, HostEnd(url))
    ELSE IF Len(url) >= 1 /\ url[1] \in {"about:", "data:"} THEN NullOrigin
    ELSE url

\* the host tokens that end in a dot
LabelsWithDot == {"sub."}

\* hostname === domain || hostname.endsWith(`.${domain}`), on host tokens;
\* no rule-matching path calls it
domainMatches(hostname, domain) ==
    \/ hostname = domain
    \/ /\ Len(hostname) > Len(domain)
       /\ SubSeq(hostname, Len(hostname) - Len(domain) + 1, Len(hostname)) = domain
       /\ hostname[Len(hostname) - Len(domain)] \in LabelsWithDot

-----------------------------------------------------------------------------
(* The schedule evaluator *)

Schedule(id, days, startTime, endTime) ==
    [id |-> id, days |-> days, startTime |-> startTime, endTime |-> endTime]

\* schedule.days as an array of weekday numbers
Days(set) == [kind |-> "array", elems |-> set]

\* a schedule object without the days property
NoDays == [kind |-> "undefined", elems |-> {}]

\* a days property of another type than array (a number, say): it has no
\* includes method
NotAnArray == [kind |-> "number", elems |-> {}]

\* ScheduleMatches with the end of a same-day window excluded
ScheduleMatches_exclusiveEnd(schedule, t) ==
    IF ~(schedule.days.kind = "array"
         /\ getDay(t) \in schedule.days.elems) THEN FALSE
    ELSE IF schedule.startTime.kind # "string"
            \/ schedule.endTime.kind # "string" THEN FALSE
    ELSE LET startTotalMinutes == TotalMinutes(schedule.startTime.chars)
             endTotalMinutes   == TotalMinutes(schedule.endTime.chars)
             cur               == Num(currentTimeInMinutes(t))
         IN IF JsLe(startTotalMinutes, endTotalMinutes)
            THEN JsGe(cur, startTotalMinutes) /\ ~JsGe(cur, endTotalMinutes)
            ELSE JsGe(cur, startTotalMinutes) \/ JsLe(cur, endTotalMinutes)

\* ScheduleMatches with the two halves of an overnight window conjoined
ScheduleMatches_noWraparound(schedule, t) ==
    IF ~(schedule.days.kind = "array"
         /\ getDay(t) \in schedule.days.elems) THEN FALSE
    ELSE IF schedule.startTime.kind # "string"
            \/ schedule.endTime.kind # "string" THEN FALSE
    ELSE LET startTotalMinutes == TotalMinutes(schedule.startTime.chars)
             endTotalMinutes   == TotalMinutes(schedule.endTime.chars)
             cur               == Num(currentTimeInMinutes(t))
         IN JsGe(cur, startTotalMinutes) /\ JsLe(cur, endTotalMinutes)

\* ScheduleMatches with the early-morning half of an overnight window moved to
\* the day after the listed one; C34 fails under it
ScheduleMatches_shifted(schedule, t) ==
    IF schedule.days.kind # "array" THEN FALSE
    ELSE IF schedule.startTime.kind # "string"
            \/ schedule.endTime.kind # "string" THEN FALSE
    ELSE LET startTotalMinutes == TotalMinutes(schedule.startTime.chars)
             endTotalMinutes   == TotalMinutes(schedule.endTime.chars)
             cur               == Num(currentTimeInMinutes(t))
             today             == getDay(t) \in schedule.days.elems
             yesterday         == ((getDay(t) + 6) % 7) \in schedule.days.elems
         IN IF JsLe(startTotalMinutes, endTotalMinutes)
            THEN today /\ JsGe(cur, startTotalMinutes) /\ JsLe(cur, endTotalMinutes)
            ELSE \/ today /\ JsGe(cur, startTotalMinutes)
                 \/ yesterday /\ JsLe(cur, endTotalMinutes)

\* one schedule of schedules.some(...)
ScheduleMatches(schedule, t) ==
    \* !schedule.days?.includes(currentDay)
    IF ~(schedule.days.kind = "array"
         /\ getDay(t) \in schedule.days.elems) THEN FALSE
    \* .split on a value that is no string throws; the catch returns false
    ELSE IF schedule.startTime.kind # "string"
            \/ schedule.endTime.kind # "string" THEN FALSE
    ELSE LET startTotalMinutes == TotalMinutes(schedule.startTime.chars)
             endTotalMinutes   == TotalMinutes(schedule.endTime.chars)
             cur               == Num(currentTimeInMinutes(t))
         IN IF JsLe(startTotalMinutes, endTotalMinutes)
            THEN JsGe(cur, startTotalMinutes) /\ JsLe(cur, endTotalMinutes)
            ELSE JsGe(cur, startTotalMinutes) \/ JsLe(cur, endTotalMinutes)

isScheduleBlocked(schedules, t) ==
    /\ Len(schedules) > 0
    /\ \E i \in 1..Len(schedules) : ScheduleMatches(schedules[i], t)

\* schedule.days?.includes(currentDay) stands before the try block: when days
\* is neither missing nor an array, calling includes throws a TypeError that
\* the catch of the callback does not see
DaysThrow(schedule) == schedule.days.kind \notin {"array", "undefined"}

\* schedules.some(...) reaches a schedule whose days test throws before it
\* finds a match: the exception leaves isScheduleBlocked
isScheduleBlockedThrows(schedules, t) ==
    \E i \in 1..Len(schedules) :
        /\ DaysThrow(schedules[i])
        /\ \A j \in 1..(i - 1) : ~ScheduleMatches(schedules[j], t)

-----------------------------------------------------------------------------
(* The blocking decision *)

BlockingStatus(shouldBlock, reason) ==
    [shouldBlock |-> shouldBlock, reason |-> reason]

\* the host tokens of an origin
HostOf(origin) == SubSeq(origin, 2, Len(origin))

\* includes() that also matches the subdomains of a listed origin
SeqIncludes_subdomains(seq, x) ==
    \E i \in 1..Len(seq) :
        /\ seq[i][1] = x[1]
        /\ domainMatches(HostOf(x), HostOf(seq[i]))

\* array.includes(x)
SeqIncludes(seq, x) == \E i \in 1..Len(seq) : seq[i] = x

\* getBlockingStatus with a timer still blocking at its end time
getBlockingStatus_timerInclusive(origin, sites, schedules, timers, t) ==
    IF SeqIncludes(sites, origin)
    THEN BlockingStatus(TRUE, "instant")
    ELSE IF origin \in DOMAIN timers /\ timers[origin].endTime >= t
    THEN BlockingStatus(TRUE, "timer")
    ELSE IF origin \in DOMAIN schedules
            /\ isScheduleBlocked(schedules[origin], t)
    THEN BlockingStatus(TRUE, "schedule")
    ELSE BlockingStatus(FALSE, "")

\* getBlockingStatus with the timer checked before the instant rule
getBlockingStatus_timerFirst(origin, sites, schedules, timers, t) ==
    IF origin \in DOMAIN timers /\ timers[origin].endTime > t
    THEN BlockingStatus(TRUE, "timer")
    ELSE IF SeqIncludes(sites, origin)
    THEN BlockingStatus(TRUE, "instant")
    ELSE IF origin \in DOMAIN schedules
            /\ isScheduleBlocked(schedules[origin], t)
    THEN BlockingStatus(TRUE, "schedule")
    ELSE BlockingStatus(FALSE, "")

\* getBlockingStatus that names the last rule kind it looked at when nothing
\* matched; C22 fails under it
getBlockingStatus_lastChecked(origin, sites, schedules, timers, t) ==
    IF SeqIncludes(sites, origin)
    THEN BlockingStatus(TRUE, "instant")
    ELSE IF origin \in DOMAIN timers /\ timers[origin].endTime > t
    THEN BlockingStatus(TRUE, "timer")
    ELSE IF origin \in DOMAIN schedules
    THEN BlockingStatus(isScheduleBlocked(schedules[origin], t), "schedule")
    ELSE BlockingStatus(FALSE, "")

\* getBlockingStatus(origin) on the rule collections read from storage at time t
getBlockingStatus(origin, sites, schedules, timers, t) ==
    IF SeqIncludes(sites, origin)
    THEN BlockingStatus(TRUE, "instant")
    ELSE IF origin \in DOMAIN timers /\ timers[origin].endTime > t
    THEN BlockingStatus(TRUE, "timer")
    ELSE IF origin \in DOMAIN schedules
            /\ isScheduleBlocked(schedules[origin], t)
    THEN BlockingStatus(TRUE, "schedule")
    ELSE BlockingStatus(FALSE, "")

\* getBlockingStatus(origin) rejects: the schedule check is reached and throws
getBlockingStatusThrows(origin, sites, schedules, timers, t) ==
    /\ ~SeqIncludes(sites, origin)
    /\ ~(origin \in DOMAIN timers /\ timers[origin].endTime > t)
    /\ origin \in DOMAIN schedules
    /\ isScheduleBlockedThrows(schedules[origin], t)

-----------------------------------------------------------------------------
(* The url rules (blockedDomains) and the redirect listener *)

CharTable == Digits \o <<":">>

\* the code unit of a character of a time string ("0" is 48, ":" is 58)
CharCode(c) == 47 + (CHOOSE i \in 1..Len(CharTable) : CharTable[i] = c)

\* a <= b on strings: code unit by code unit, a prefix first
RECURSIVE StrLe(_, _)
StrLe(a, b) ==
    IF a = <<>> THEN TRUE
    ELSE IF b = <<>> THEN FALSE
    ELSE IF CharCode(a[1]) # CharCode(b[1]) THEN CharCode(a[1]) < CharCode(b[1])
    ELSE StrLe(Tail(a), Tail(b))

StrGt(a, b) == ~StrLe(a, b)

StrGe(a, b) == StrLe(b, a)

DayNames == <<"Sun", "Mon", "Tue", "Wed", "Thu", "Fri", "Sat">>

\* now.toLocaleDateString("en-US", { weekday: "short" })
currentDayName(t) == DayNames[getDay(t) + 1]

\* now.toTimeString().slice(0, 5)
currentTimeString(t) == HHmm(currentTimeInMinutes(t))

UrlRule(url, days, from, to, redirectTo) ==
    [url |-> url, days |-> days, from |-> from, to |-> to, redirect |-> redirectTo]

isTimeInRange(current, from, to) ==
    IF StrGt(from, to)
    THEN StrGe(current, from) \/ StrLe(current, to)
    ELSE StrGe(current, from) /\ StrLe(current, to)

\* whether the rule of the loop of shouldBlockRequest reaches the return
UrlRuleMatches(rule, url, t) ==
    /\ rule.url # NoUrl
    /\ url = rule.url
    /\ currentDayName(t) \in rule.days
    /\ isTimeInRange(currentTimeString(t), rule.from, rule.to)

\* shouldBlockRequest(url): the redirect target, or NoUrl for null
shouldBlockRequest(url, rules, t) ==
    IF \E i \in 1..Len(rules) : UrlRuleMatches(rules[i], url, t)
    THEN LET k == CHOOSE i \in 1..Len(rules) :
                      /\ UrlRuleMatches(rules[i], url, t)
                      /\ \A j \in 1..(i - 1) : ~UrlRuleMatches(rules[j], url, t)
         IN IF rules[k].redirect # NoUrl THEN rules[k].redirect
            ELSE REDIRECT_URL
    ELSE NoUrl

\* redirect(request) that returns the target as the rule stores it; C35 fails
\* under it
redirect_asStored(url, rules, t) ==
    LET redirectUrl == shouldBlockRequest(url, rules, t)
    IN IF redirectUrl = NoUrl THEN Allow(url)
       ELSE Redirect(url, redirectUrl)

\* redirect(request): the response of the webRequest listener
redirect(url, rules, t) ==
    LET redirectUrl == shouldBlockRequest(url, rules, t)
    IN IF redirectUrl = NoUrl THEN Allow(url)
       ELSE IF \/ StartsWith(redirectUrl, <<"http://">>)
               \/ StartsWith(redirectUrl, <<"https://">>)
               \/ StartsWith(redirectUrl, <<"moz-extension://">>)
               \/ StartsWith(redirectUrl, <<"chrome-extension://">>)
       THEN Redirect(url, redirectUrl)
       ELSE Redirect(url, <<"https://">> \o redirectUrl)

\* the listener answers only while it is registered
RedirectListener(url) ==
    legacyResponse' = IF listenerRegistered
                      THEN redirect(url, blockedDomains, now)
                      ELSE Allow(url)

-----------------------------------------------------------------------------
(* The vault's stored values and the popup when it is not open *)

\* a verifier blob: iv and ciphertext, the ciphertext standing for the key it
\* was made under and the plaintext it holds
Verifier(key, iv, plaintext, base64) ==
    [present |-> TRUE, key |-> key, iv |-> iv, plaintext |-> plaintext,
     base64 |-> base64]

NoVerifier ==
    [present |-> FALSE, key |-> [passphrase |-> <<>>, salt |-> ""], iv |-> <<>>,
     plaintext |-> "", base64 |-> <<>>]

\* startTimer between its read and its write: the origin and endTime it
\* computed and the timerBlocks it read
IdleTimerCall ==
    [pc |-> "idle", origin |-> <<>>, endTime |-> 0, minutes |-> 0, at |-> 0,
     snapshot |-> <<>>]

\* cleanupExpiredTimers between its read and its write: the timerBlocks it
\* is about to write
IdleSweep == [pc |-> "idle", snapshot |-> <<>>]

\* updateActiveTimerDisplay's write that nothing awaits: the timerBlocks
\* being written, and whether the refresh of the popup has been called
IdleDisplay == [pc |-> "idle", value |-> <<>>, refreshed |-> FALSE]

NoCalls == [timer |-> IdleTimerCall, sweep |-> IdleSweep, display |-> IdleDisplay]

PopupClosed ==
    /\ popupOpen = FALSE
    /\ currentOrigin = NoUrl
    /\ actionBtn = "none"
    /\ timerInterval = FALSE
    /\ page = "none"
    /\ message = ""

-----------------------------------------------------------------------------
(* The navigation interceptor *)

NoVerdict ==
    [called |-> FALSE, origin |-> NoUrl, shouldBlock |-> FALSE, reason |-> "",
     threw |-> FALSE]

\* the guard that lets internal pages through
IsExempt(url) ==
    \/ StartsWith(url, <<"about:">>)
    \/ StartsWith(url, <<"moz-extension://">>)
    \/ Includes(url, "blocked.html")

\* the URLs of the main-frame requests of the model
RequestUrls ==
    { ExampleCom \o <<"/">>,
      ExampleCom \o <<"/", "page">>,
      ExampleCom \o <<"/", "blocked.html">>,
      SubExampleCom \o <<"/">>,
      REDIRECT_URL,
      AboutBlank }

\* a variant that redirects without recording the blocked origin and the
\* reason; C21 fails under it
onBeforeRequestListener_noRecord(url) ==
    IF IsExempt(url)
    THEN /\ response' = Allow(url)
         /\ verdict' = NoVerdict
         /\ UNCHANGED <<lastBlocked, blockReason>>
    ELSE LET origin == getOrigin(url)
             status == getBlockingStatus(origin, blockedSites, scheduledBlocks,
                                         timerBlocks, now)
         IN /\ verdict' = [called |-> TRUE, origin |-> origin,
                           shouldBlock |-> status.shouldBlock,
                           reason |-> status.reason, threw |-> FALSE]
            /\ response' = IF status.shouldBlock THEN Redirect(url, REDIRECT_URL)
                           ELSE Allow(url)
            /\ UNCHANGED <<lastBlocked, blockReason>>

onBeforeRequestListener(url) ==
    IF IsExempt(url)
    THEN /\ response' = Allow(url)
         /\ verdict' = NoVerdict
         /\ UNCHANGED <<lastBlocked, blockReason>>
    \* the catch of the listener: the error is logged and the request allowed
    ELSE IF getBlockingStatusThrows(getOrigin(url), blockedSites,
                                    scheduledBlocks, timerBlocks, now)
    THEN /\ response' = Allow(url)
         /\ verdict' = [called |-> TRUE, origin |-> getOrigin(url),
                        shouldBlock |-> FALSE, reason |-> "", threw |-> TRUE]
         /\ UNCHANGED <<lastBlocked, blockReason>>
    ELSE LET origin == getOrigin(url)
             status == getBlockingStatus(origin, blockedSites, scheduledBlocks,
                                         timerBlocks, now)
         IN /\ verdict' = [called |-> TRUE, origin |-> origin,
                           shouldBlock |-> status.shouldBlock,
                           reason |-> status.reason, threw |-> FALSE]
            /\ IF status.shouldBlock
               THEN /\ lastBlocked' = origin
                    /\ blockReason' = status.reason
                    /\ response' = Redirect(url, REDIRECT_URL)
               ELSE /\ response' = Allow(url)
                    /\ UNCHANGED <<lastBlocked, blockReason>>

\* one main-frame request: both webRequest listeners receive it, and the tab
\* shows the page the new listener's response leads to
Request(url) ==
    /\ onBeforeRequestListener(url)
    /\ RedirectListener(url)
    /\ tabUrl' = IF response'.redirectUrl # NoUrl THEN response'.redirectUrl
                  ELSE url
    /\ UNCHANGED <<now, storeVars, legacyVars, vaultVars, pageVars, popupVars,
                   timerLog, calls>>

Navigate == \E url \in RequestUrls : Request(url)

-----------------------------------------------------------------------------
(* Rule-store snapshots: the inputs of the decision *)

\* the instants at which the clock of a snapshot stands: minutes of a Monday
\* around the ends of the windows below, and two minutes of the Tuesday after
ClockInstants ==
    {At(1, m, 0) : m \in {330, 360, 361, 539, 540, 720, 1020, 1021, 1320, 1410}}
    \cup {At(2, m, 0) : m \in {330, 720}}

\* [start, end] windows of the schedules of a snapshot, in minutes of the day
ScheduleShapes ==
    { Schedule(0, Days({1}), Str(HHmm(540)), Str(HHmm(1020))),
      Schedule(0, Days({0, 2}), Str(HHmm(540)), Str(HHmm(1020))),
      Schedule(0, Days({1}), Str(HHmm(1320)), Str(HHmm(360))),
      Schedule(0, Days({1, 2}), Str(HHmm(720)), Str(HHmm(720))) }

\* schedule lists of up to MaxSchedLen schedules, ids 1, 2, ... by position
ScheduleLists ==
    UNION { { [i \in 1..n |-> [shape[i] EXCEPT !.id = i]] :
                  shape \in [1..n -> ScheduleShapes] } : n \in 0..MaxSchedLen }

Timer(endTime, duration) == [endTime |-> endTime, duration |-> duration]

\* the rules of one origin: instant rule or not, timers (0 or 1), schedules
TimerEnds(t) == {t - 1, t, t + 1}

\* the url rules of a snapshot: none, or a same-day rule with the default
\* target, an overnight rule with a custom target and a rule of another url
UrlRuleLists ==
    { <<>>,
      << UrlRule(ExampleCom \o <<"/">>, {"Mon"}, HHmm(540), HHmm(1020), NoUrl),
         UrlRule(ExampleCom \o <<"/", "page">>, {"Mon", "Tue"}, HHmm(1320),
                 HHmm(360), <<"focus.example">>),
         UrlRule(ExampleCom \o <<"/", "page">>, {"Mon"}, HHmm(0), HHmm(1439),
                 <<"https://", "late.example">>) >> }

OriginSets == {{ExampleCom}, {SubExampleCom}}

InitDecide ==
    /\ now \in ClockInstants
    /\ \E os \in OriginSets, instant \in BOOLEAN,
          ends \in {{}} \cup {{e} : e \in TimerEnds(now)},
          list \in ScheduleLists :
          /\ blockedSites = IF instant
                            THEN (IF ExampleCom \in os THEN <<ExampleCom>> ELSE <<>>)
                                 \o (IF SubExampleCom \in os
                                     THEN <<SubExampleCom>> ELSE <<>>)
                            ELSE <<>>
          /\ timerBlocks = IF ends = {} THEN <<>>
                           ELSE [o \in os |-> Timer(CHOOSE e \in ends : TRUE, 1)]
          /\ scheduledBlocks = IF list = <<>> THEN <<>>
                               ELSE [o \in os |-> list]
    /\ blockedDomainsStore \in UrlRuleLists
    /\ blockedDomains = blockedDomainsStore
    /\ listenerRegistered = (Len(blockedDomains) > 0)
    /\ lastBlocked = NoUrl
    /\ blockReason = ""
    /\ response = Allow(NoUrl)
    /\ legacyResponse = Allow(NoUrl)
    /\ verdict = NoVerdict
    /\ pendingMsg = NoUrl
    /\ tabUrl = AboutBlank
    /\ encryptedVerifier = NoVerifier
    /\ encryptionSalt = ""
    /\ isLoggedIn = FALSE
    /\ PopupClosed
    /\ timerLog = <<>>
    /\ calls = NoCalls

SpecDecide == InitDecide /\ [][Navigate]_vars

\* a property value of another type than string (a number, say)
NotAString == [kind |-> "number", chars |-> <<>>]

\* startTime and endTime values that are not "HH:mm": the property missing, a
\* number, "", "abc", "9" and ":30"
MalformedTimes ==
    { Undefined, NotAString, Str(<<>>), Str(<<"a", "b", "c">>), Str(<<"9">>),
      Str(<<":", "3", "0">>) }

\* Monday schedules with a malformed start, a malformed end or both, and the
\* well-formed 09:00-17:00 beside them
MalformedShapes ==
    { Schedule(1, Days({1}), bad, Str(HHmm(1020))) : bad \in MalformedTimes }
    \cup { Schedule(1, Days({1}), Str(HHmm(540)), bad) : bad \in MalformedTimes }
    \cup { Schedule(1, Days({1}), bad, bad) : bad \in MalformedTimes }
    \cup { Schedule(1, Days({1}), Str(HHmm(540)), Str(HHmm(1020))) }

\* corrupt schedules: the malformed times above, and a days property that is
\* missing or no array beside well-formed times
CorruptShapes ==
    (MalformedShapes \ { Schedule(1, Days({1}), Str(HHmm(540)), Str(HHmm(1020))) })
    \cup { Schedule(1, days, Str(HHmm(540)), Str(HHmm(1020))) :
               days \in {NoDays, NotAnArray} }

\* one schedule alone, or a corrupt schedule before or after the well-formed
\* Monday 09:00-17:00
MalformedLists ==
    { <<shape>> : shape \in MalformedShapes }
    \cup { <<corrupt, Schedule(2, Days({1}), Str(HHmm(540)), Str(HHmm(1020)))>> :
               corrupt \in CorruptShapes }
    \cup { <<Schedule(2, Days({1}), Str(HHmm(540)), Str(HHmm(1020))), corrupt>> :
               corrupt \in CorruptShapes }

\* snapshots in which example.com has these schedules and no other rule
InitMalformed ==
    /\ now \in ClockInstants
    /\ blockedSites = <<>>
    /\ timerBlocks = <<>>
    /\ \E list \in MalformedLists :
           scheduledBlocks = [o \in {ExampleCom} |-> list]
    /\ blockedDomainsStore = <<>>
    /\ blockedDomains = <<>>
    /\ listenerRegistered = FALSE
    /\ lastBlocked = NoUrl
    /\ blockReason = ""
    /\ response = Allow(NoUrl)
    /\ legacyResponse = Allow(NoUrl)
    /\ verdict = NoVerdict
    /\ pendingMsg = NoUrl
    /\ tabUrl = AboutBlank
    /\ encryptedVerifier = NoVerifier
    /\ encryptionSalt = ""
    /\ isLoggedIn = FALSE
    /\ PopupClosed
    /\ timerLog = <<>>
    /\ calls = NoCalls

SpecMalformed == InitMalformed /\ [][Navigate]_vars

-----------------------------------------------------------------------------
(* Objects and arrays of the rule store *)

\* a variant that empties the object; C39 fails under it
DeleteKey_clearing(obj, key) == <<>>

\* delete obj[key]
DeleteKey(obj, key) == [k \in DOMAIN obj \ {key} |-> obj[k]]

\* a variant that keeps the value a key already has; C15 fails under it
SetKey_keepExisting(obj, key, value) ==
    [k \in DOMAIN obj \cup {key} |-> IF k \in DOMAIN obj THEN obj[k] ELSE value]

\* obj[key] = value
SetKey(obj, key, value) ==
    [k \in DOMAIN obj \cup {key} |-> IF k = key THEN value ELSE obj[k]]

\* array.filter((site) => site !== x)
Without(seq, x) == LET Keep(e) == e # x IN SelectSeq(seq, Keep)

\* a variant that drops the schedules that follow the removed one as well;
\* C16 fails under it
WithoutId_truncating(seq, id) ==
    IF \E i \in DOMAIN seq : seq[i].id = id
    THEN SubSeq(seq, 1, (CHOOSE i \in DOMAIN seq :
                            seq[i].id = id /\ \A j \in 1..(i - 1) : seq[j].id # id) - 1)
    ELSE seq

\* array.filter((schedule) => schedule.id !== id)
WithoutId(seq, id) == LET Keep(e) == e.id # id IN SelectSeq(seq, Keep)

-----------------------------------------------------------------------------
(* The background script's timer sweep *)

\* a variant that deletes nothing; C19 fails under it
UnexpiredTimers_keepsAll(timers, t) == timers

\* a variant that keeps a timer in the millisecond of its endTime; C18 fails
\* under it
UnexpiredTimers_strict(timers, t) ==
    [o \in {k \in DOMAIN timers : ~(timers[k].endTime < t)} |-> timers[o]]

\* cleanupExpiredTimers: the timers left after deleting those with endTime <= t
UnexpiredTimers(timers, t) ==
    [o \in {k \in DOMAIN timers : ~(timers[k].endTime <= t)} |-> timers[o]]

\* a variant that also drops the schedules of an origin with its expired
\* timer; C29 fails under it
cleanupExpiredTimers_allRules ==
    /\ timerBlocks' = UnexpiredTimers(timerBlocks, now)
    /\ scheduledBlocks' =
           [o \in DOMAIN scheduledBlocks \
                      (DOMAIN timerBlocks \ DOMAIN UnexpiredTimers(timerBlocks, now))
               |-> scheduledBlocks[o]]
    /\ UNCHANGED <<now, blockedSites, hintVars, legacyVars,
                   requestVars, vaultVars, pageVars, popupVars, tabUrl, timerLog, calls>>

\* one run of the sweep (at load, on install, on startup, every 60 seconds);
\* it writes only when it deleted something
cleanupExpiredTimers ==
    /\ timerBlocks' = UnexpiredTimers(timerBlocks, now)
    /\ UNCHANGED <<now, blockedSites, scheduledBlocks, hintVars, legacyVars,
                   requestVars, vaultVars, pageVars, popupVars, tabUrl, timerLog, calls>>

-----------------------------------------------------------------------------
(* The popup (popup.js) *)

\* what siteUrl shows when lastBlocked is absent
UnknownOrigin == <<"(unknown)">>

\* parseInt(s, 10): the value of the leading digits, NaN when there are none
JsParseInt(chars) ==
    LET n == IF \E i \in 1..Len(chars) : ~IsDigit(chars[i])
             THEN (CHOOSE i \in 1..Len(chars) :
                       /\ ~IsDigit(chars[i])
                       /\ \A j \in 1..(i - 1) : IsDigit(chars[j])) - 1
             ELSE Len(chars)
    IN IF n = 0 THEN NaN ELSE Num(DecimalValue(SubSeq(chars, 1, n)))

\* parseInt(s.split(":")[0], 10) * 60 + parseInt(s.split(":")[1], 10)
PopupTotalMinutes(chars) ==
    LET parts == SplitColon(chars)
        hour  == JsParseInt(parts[1])
        min   == IF Len(parts) >= 2 THEN JsParseInt(parts[2]) ELSE NaN
    IN JsAdd(JsMul(hour, Num(60)), min)

\* the callback of schedules.some(...) in isCurrentlyScheduleBlocked:
\* "true", "false", or "throws" when a property it dereferences is missing
PopupScheduleMatches(schedule, t) ==
    IF schedule.days.kind # "array" THEN "throws"
    ELSE IF getDay(t) \notin schedule.days.elems THEN "false"
    ELSE IF schedule.startTime.kind # "string"
            \/ schedule.endTime.kind # "string" THEN "throws"
    ELSE LET startTime   == PopupTotalMinutes(schedule.startTime.chars)
             endTime     == PopupTotalMinutes(schedule.endTime.chars)
             currentTime == Num(currentTimeInMinutes(t))
         IN IF JsLe(startTime, endTime)
            THEN (IF JsGe(currentTime, startTime) /\ JsLe(currentTime, endTime)
                  THEN "true" ELSE "false")
            ELSE (IF JsGe(currentTime, startTime) \/ JsLe(currentTime, endTime)
                  THEN "true" ELSE "false")

\* isCurrentlyScheduleBlocked(schedules): some() stops at the first schedule
\* that matches or throws
isCurrentlyScheduleBlocked(schedules, t) ==
    IF \E i \in 1..Len(schedules) : PopupScheduleMatches(schedules[i], t) # "false"
    THEN LET k == CHOOSE i \in 1..Len(schedules) :
                      /\ PopupScheduleMatches(schedules[i], t) # "false"
                      /\ \A j \in 1..(i - 1) :
                             PopupScheduleMatches(schedules[j], t) = "false"
         IN PopupScheduleMatches(schedules[k], t)
    ELSE "false"

ListOf(schedules, origin) ==
    IF origin \in DOMAIN schedules THEN schedules[origin] ELSE <<>>

\* checkBlockingStatus(): the handler it leaves on actionBtn, given the
\* handler the button holds (kept when the evaluation throws)
checkBlockingStatus(sites, schedules, timers, origin, t, btn) ==
    LET isInstantBlocked  == SeqIncludes(sites, origin)
        isScheduleBlocked_ == isCurrentlyScheduleBlocked(ListOf(schedules, origin), t)
        isTimerBlocked    == origin \in DOMAIN timers /\ timers[origin].endTime > t
    IN IF isScheduleBlocked_ = "throws" THEN btn
       ELSE IF isInstantBlocked \/ isScheduleBlocked_ = "true" \/ isTimerBlocked
       THEN "unblock"
       ELSE "block"

\* the part_000 DOMContentLoaded handler's choice of page
RoutedPage == IF encryptedVerifier.present
              THEN (IF isLoggedIn THEN "home" ELSE "login")
              ELSE "signup"

RoutedMessage == IF encryptedVerifier.present
                 THEN (IF isLoggedIn THEN "Welcome back." ELSE "Login Page")
                 ELSE "Signup Page"

HasLiveTimerFor(origin) ==
    origin \in DOMAIN timerBlocks /\ timerBlocks[origin].endTime > now

\* the user opens the popup on the active tab: the main entry point, the
\* DOMContentLoaded handlers and loadTimerState
OpenPopup ==
    /\ ~popupOpen
    /\ popupOpen' = TRUE
    /\ page' = RoutedPage
    /\ message' = RoutedMessage
    /\ IF StartsWith(tabUrl, REDIRECT_URL)
       THEN /\ currentOrigin' = IF lastBlocked # NoUrl THEN lastBlocked
                                ELSE UnknownOrigin
            /\ actionBtn' = IF lastBlocked # NoUrl THEN "unblockAndGo"
                            ELSE "nothing"
            \* loadTimerState may read currentOrigin before lastBlocked arrived
            /\ timerInterval' \in {FALSE, HasLiveTimerFor(lastBlocked)}
       ELSE /\ currentOrigin' = getOrigin(tabUrl)
            /\ actionBtn' = checkBlockingStatus(blockedSites, scheduledBlocks,
                                timerBlocks, getOrigin(tabUrl), now, "none")
            /\ timerInterval' = HasLiveTimerFor(getOrigin(tabUrl))
    /\ UNCHANGED <<now, storeVars, hintVars, legacyVars, requestVars, vaultVars,
                   tabUrl, timerLog, calls>>

\* window.close(), or the user dismissing the popup
Closed ==
    /\ popupOpen' = FALSE
    /\ currentOrigin' = NoUrl
    /\ actionBtn' = "none"
    /\ timerInterval' = FALSE
    /\ page' = "none"
    /\ message' = ""

ClosePopup ==
    /\ popupOpen
    /\ Closed
    \* the popup's script ends with its window: a startTimer that has not
    \* written yet never does
    /\ calls' = [calls EXCEPT !.timer = IdleTimerCall]
    /\ UNCHANGED <<now, storeVars, hintVars, legacyVars, requestVars, vaultVars,
                   tabUrl, timerLog>>

\* blockSite(): the click on "Block This Site"
blockSite ==
    /\ popupOpen /\ actionBtn = "block"
    /\ IF ~SeqIncludes(blockedSites, currentOrigin)
       THEN /\ blockedSites' = Append(blockedSites, currentOrigin)
            /\ lastBlocked' = currentOrigin
            /\ tabUrl' = REDIRECT_URL
            /\ Closed
       ELSE UNCHANGED <<blockedSites, lastBlocked, tabUrl, pageVars, popupVars>>
    /\ UNCHANGED <<now, scheduledBlocks, timerBlocks, blockReason, legacyVars,
                   requestVars, vaultVars, timerLog, calls>>

\* a variant that leaves the origin's timer stored; C13 fails under it
unblockSite_keepsTimer ==
    /\ popupOpen /\ actionBtn \in {"unblock", "unblockAndGo"}
    /\ blockedSites' = Without(blockedSites, currentOrigin)
    /\ scheduledBlocks' = DeleteKey(scheduledBlocks, currentOrigin)
    /\ tabUrl' = currentOrigin
    /\ Closed
    /\ UNCHANGED <<now, timerBlocks, timerLog, hintVars, legacyVars, requestVars,
                   vaultVars, calls>>

\* unblockSite(origin, shouldRedirect) as the action button calls it:
\* unblockSite(currentOrigin), or unblockSite(data.lastBlocked, true)
unblockSite ==
    /\ popupOpen /\ actionBtn \in {"unblock", "unblockAndGo"}
    /\ blockedSites' = Without(blockedSites, currentOrigin)
    /\ scheduledBlocks' = DeleteKey(scheduledBlocks, currentOrigin)
    /\ timerBlocks' = DeleteKey(timerBlocks, currentOrigin)
    /\ timerLog' = DeleteKey(timerLog, currentOrigin)
    /\ tabUrl' = currentOrigin
    /\ Closed
    /\ UNCHANGED <<now, hintVars, legacyVars, requestVars, vaultVars, calls>>

\* a variant that takes the duration for seconds' worth of milliseconds; C8
\* fails under it
TimerEndTime_seconds(t, minutes) == t + minutes * 60

\* endTime = Date.now() + selectedTimerMinutes * 60 * 1000
TimerEndTime(t, minutes) == t + minutes * 60 * 1000

\* the durations the user can have selected when clicking Start
TimerChoices == 0..MaxMinutes

\* startTimer()
startTimer(minutes) ==
    /\ popupOpen
    /\ IF minutes <= 0
       THEN UNCHANGED <<timerBlocks, lastBlocked, tabUrl, pageVars, popupVars,
                        timerLog>>
       ELSE /\ timerBlocks' = SetKey(timerBlocks, currentOrigin,
                                     Timer(TimerEndTime(now, minutes), minutes))
            /\ timerLog' = SetKey(timerLog, currentOrigin,
                                  [at |-> now, minutes |-> minutes,
                                   replaced |-> currentOrigin \in DOMAIN timerBlocks])
            /\ lastBlocked' = currentOrigin
            /\ tabUrl' = REDIRECT_URL
            /\ Closed
    /\ UNCHANGED <<now, blockedSites, scheduledBlocks, blockReason, legacyVars,
                   requestVars, vaultVars, calls>>

\* stopTimer()
stopTimer ==
    /\ popupOpen
    /\ timerBlocks' = DeleteKey(timerBlocks, currentOrigin)
    /\ timerLog' = DeleteKey(timerLog, currentOrigin)
    /\ timerInterval' = FALSE
    /\ actionBtn' = checkBlockingStatus(blockedSites, scheduledBlocks,
                        timerBlocks', currentOrigin, now, actionBtn)
    /\ UNCHANGED <<now, blockedSites, scheduledBlocks, hintVars, legacyVars,
                   requestVars, vaultVars, pageVars, popupOpen, currentOrigin,
                   tabUrl, calls>>

\* updateActiveTimerDisplay(): the tick of the one-second interval
updateActiveTimerDisplay ==
    /\ popupOpen /\ timerInterval
    /\ IF ~HasLiveTimerFor(currentOrigin)
       THEN /\ timerInterval' = FALSE
            /\ timerBlocks' = DeleteKey(timerBlocks, currentOrigin)
            /\ actionBtn' = IF currentOrigin \in DOMAIN timerBlocks
                            THEN checkBlockingStatus(blockedSites, scheduledBlocks,
                                     timerBlocks', currentOrigin, now, actionBtn)
                            ELSE actionBtn
       ELSE UNCHANGED <<timerInterval, timerBlocks, actionBtn>>
    /\ UNCHANGED <<now, blockedSites, scheduledBlocks, hintVars, legacyVars,
                   requestVars, vaultVars, pageVars, popupOpen, currentOrigin,
                   tabUrl, timerLog, calls>>

\* what the user can have selected in the schedule form when clicking Add:
\* day buttons and the two time inputs ("" when a time input is empty)
ScheduleForms ==
    { [days |-> {1}, startTime |-> HHmm(540), endTime |-> HHmm(1020)],
      [days |-> {},  startTime |-> HHmm(540), endTime |-> HHmm(1020)],
      [days |-> {1}, startTime |-> <<>>,      endTime |-> HHmm(1020)] }

\* addSchedule()
addSchedule(form) ==
    /\ popupOpen
    /\ Len(ListOf(scheduledBlocks, currentOrigin)) < MaxSchedules
    /\ IF form.days = {} \/ form.startTime = <<>> \/ form.endTime = <<>>
       THEN UNCHANGED <<scheduledBlocks, lastBlocked, tabUrl, pageVars, popupVars>>
       ELSE LET schedule == Schedule(now, Days(form.days), Str(form.startTime),
                                     Str(form.endTime))
            IN /\ scheduledBlocks' =
                      SetKey(scheduledBlocks, currentOrigin,
                             Append(ListOf(scheduledBlocks, currentOrigin), schedule))
               /\ IF isCurrentlyScheduleBlocked(<<schedule>>, now) = "true"
                  THEN /\ lastBlocked' = currentOrigin
                       /\ tabUrl' = REDIRECT_URL
                       /\ Closed
                  ELSE /\ actionBtn' = checkBlockingStatus(blockedSites,
                                           scheduledBlocks', timerBlocks,
                                           currentOrigin, now, actionBtn)
                       /\ UNCHANGED <<lastBlocked, tabUrl, pageVars, popupOpen,
                                      currentOrigin, timerInterval>>
    /\ UNCHANGED <<now, blockedSites, timerBlocks, blockReason, legacyVars,
                   requestVars, vaultVars, timerLog, calls>>

\* the entries of the header's block details: <<type, id>>
HeaderDetails ==
    (IF SeqIncludes(blockedSites, currentOrigin) THEN {<<"instant", 0>>} ELSE {})
    \cup { <<"schedule", ListOf(scheduledBlocks, currentOrigin)[i].id>> :
               i \in 1..Len(ListOf(scheduledBlocks, currentOrigin)) }
    \cup (IF HasLiveTimerFor(currentOrigin) THEN {<<"timer", 0>>} ELSE {})

\* scheduledBlocks after removing schedule id of site (the key goes with its
\* last schedule)
WithoutSchedule(schedules, site, id) ==
    IF site \notin DOMAIN schedules THEN schedules
    ELSE IF WithoutId(schedules[site], id) = <<>> THEN DeleteKey(schedules, site)
    ELSE SetKey(schedules, site, WithoutId(schedules[site], id))

\* removeBlockFromHeader(type, id)
removeBlockFromHeader(type, id) ==
    /\ popupOpen
    /\ blockedSites' = IF type = "instant" THEN Without(blockedSites, currentOrigin)
                       ELSE blockedSites
    /\ scheduledBlocks' = IF type = "schedule"
                          THEN WithoutSchedule(scheduledBlocks, currentOrigin, id)
                          ELSE scheduledBlocks
    /\ timerBlocks' = IF type = "timer" THEN DeleteKey(timerBlocks, currentOrigin)
                      ELSE timerBlocks
    /\ timerLog' = IF type = "timer" THEN DeleteKey(timerLog, currentOrigin)
                   ELSE timerLog
    /\ timerInterval' = IF type = "timer" THEN FALSE ELSE timerInterval
    /\ actionBtn' = IF type = "schedule" /\ currentOrigin \notin DOMAIN scheduledBlocks
                    THEN actionBtn
                    ELSE checkBlockingStatus(blockedSites', scheduledBlocks',
                             timerBlocks', currentOrigin, now, actionBtn)
    /\ UNCHANGED <<now, hintVars, legacyVars, requestVars, vaultVars, pageVars,
                   popupOpen, currentOrigin, tabUrl, calls>>

\* the entries of the Manage tab's list: <<type, site, id>>
AllBlocks ==
    { <<"instant", blockedSites[i], 0>> : i \in 1..Len(blockedSites) }
    \cup UNION { { <<"schedule", site, scheduledBlocks[site][i].id>> :
                       i \in 1..Len(scheduledBlocks[site]) } :
                 site \in DOMAIN scheduledBlocks }
    \cup { <<"timer", site, 0>> : site \in DOMAIN timerBlocks }

\* isStillBlocked in unblockFromManage, for the rule type just removed
IsStillBlocked(type) ==
    IF type = "schedule"
    THEN SeqIncludes(blockedSites', currentOrigin)
         \/ (currentOrigin \in DOMAIN timerBlocks'
             /\ timerBlocks'[currentOrigin].endTime > now)
    ELSE SeqIncludes(blockedSites', currentOrigin)
         \/ isCurrentlyScheduleBlocked(ListOf(scheduledBlocks', currentOrigin), now)
                # "false"

\* unblockFromManage(removeDataStr) for the Remove button of one entry
unblockFromManage(type, site, id) ==
    /\ popupOpen
    /\ blockedSites' = IF type = "instant" THEN Without(blockedSites, site)
                       ELSE blockedSites
    /\ scheduledBlocks' = IF type = "schedule"
                          THEN WithoutSchedule(scheduledBlocks, site, id)
                          ELSE scheduledBlocks
    /\ timerBlocks' = IF type = "timer" THEN DeleteKey(timerBlocks, site)
                      ELSE timerBlocks
    /\ timerLog' = IF type = "timer" THEN DeleteKey(timerLog, site) ELSE timerLog
    /\ IF site = currentOrigin /\ (type = "instant" \/ ~IsStillBlocked(type))
       THEN /\ tabUrl' = site
            /\ Closed
       ELSE /\ timerInterval' = IF type = "timer" /\ site = currentOrigin
                                THEN FALSE ELSE timerInterval
            /\ actionBtn' =
                   IF site = currentOrigin
                      /\ isCurrentlyScheduleBlocked(
                             ListOf(scheduledBlocks', currentOrigin), now) # "throws"
                   THEN checkBlockingStatus(blockedSites', scheduledBlocks',
                            timerBlocks', currentOrigin, now, actionBtn)
                   ELSE actionBtn
            /\ UNCHANGED <<tabUrl, pageVars, popupOpen, currentOrigin>>
    /\ UNCHANGED <<now, hintVars, legacyVars, requestVars, vaultVars, calls>>

\* [...a, ...b] without the Set; C14 fails under it
SetSpread_concat(a, b) == a \o b

\* [...new Set([...a, ...b])]
RECURSIVE SetSpread(_, _)
SetSpread(a, b) ==
    IF b = <<>> THEN a
    ELSE SetSpread(IF SeqIncludes(a, Head(b)) THEN a ELSE Append(a, Head(b)), Tail(b))

\* a variant in which the keys of a win over those of b; C28 fails under it
ObjectSpread_keepsFirst(a, b) ==
    [k \in DOMAIN a \cup DOMAIN b |-> IF k \in DOMAIN a THEN a[k] ELSE b[k]]

\* {...a, ...b}
ObjectSpread(a, b) ==
    [k \in DOMAIN a \cup DOMAIN b |-> IF k \in DOMAIN b THEN b[k] ELSE a[k]]

ImportData(hasSites, sites, hasSchedules, schedules) ==
    [hasSites |-> hasSites, blockedSites |-> sites,
     hasSchedules |-> hasSchedules, scheduledBlocks |-> schedules]

\* the parsed files the user can import: a file naming one site twice and
\* holding two schedules of one id for it, a file holding the site and a
\* schedule object without days, and a JSON object with neither key
ImportFiles ==
    { ImportData(TRUE, <<ExampleCom, ExampleCom>>, TRUE,
                 SetKey(<<>>, ExampleCom,
                        <<Schedule(1, Days({2}), Str(HHmm(540)), Str(HHmm(1020))),
                          Schedule(1, Days({3}), Str(HHmm(540)), Str(HHmm(1020)))>>)),
      ImportData(TRUE, <<ExampleCom>>, TRUE,
                 SetKey(<<>>, ExampleCom,
                        <<Schedule(1, NoDays, Str(HHmm(540)), Str(HHmm(1020)))>>)),
      ImportData(FALSE, <<>>, FALSE, <<>>) }

\* importBlocks(event), through reader.onload
importBlocks(importData) ==
    /\ popupOpen
    /\ IF ~importData.hasSites /\ ~importData.hasSchedules
       THEN UNCHANGED <<blockedSites, scheduledBlocks, actionBtn>>
       ELSE /\ blockedSites' = SetSpread(SetSpread(<<>>, blockedSites),
                                         importData.blockedSites)
            /\ scheduledBlocks' = ObjectSpread(scheduledBlocks,
                                               importData.scheduledBlocks)
            /\ actionBtn' = checkBlockingStatus(blockedSites', scheduledBlocks',
                                timerBlocks, currentOrigin, now, actionBtn)
    /\ UNCHANGED <<now, timerBlocks, hintVars, legacyVars, requestVars, vaultVars,
                   pageVars, popupOpen, currentOrigin, timerInterval, tabUrl,
                   timerLog, calls>>

\* the popup importing files into each rule-store snapshot
NextImport ==
    \/ OpenPopup
    \/ ClosePopup
    \/ \E importData \in ImportFiles : importBlocks(importData)

SpecImport == InitDecide /\ [][NextImport]_vars

-----------------------------------------------------------------------------
(* The running system *)

\* Monday 08:59:00.000
StartInstant == At(1, 539, 0)

\* the instants the clock passes through: each whole minute from the start
\* and the millisecond before it
SystemInstants ==
    { t \in { StartInstant + k * MsPerMinute - e : k \in 0..MaxMinutes, e \in {0, 1} } :
          t >= StartInstant }

Tick ==
    /\ \E t \in SystemInstants : t > now /\ now' = t
    /\ UNCHANGED <<storeVars, hintVars, legacyVars, requestVars, vaultVars,
                   pageVars, popupVars, tabUrl, timerLog, calls>>

\* a fresh installation, the active tab on https://example.com/
Init ==
    /\ now = StartInstant
    /\ blockedSites = <<>>
    /\ scheduledBlocks = <<>>
    /\ timerBlocks = <<>>
    /\ lastBlocked = NoUrl
    /\ blockReason = ""
    /\ blockedDomainsStore = <<>>
    /\ blockedDomains = <<>>
    /\ listenerRegistered = FALSE
    /\ pendingMsg = NoUrl
    /\ response = Allow(NoUrl)
    /\ legacyResponse = Allow(NoUrl)
    /\ verdict = NoVerdict
    /\ tabUrl = ExampleCom \o <<"/">>
    /\ encryptedVerifier = NoVerifier
    /\ encryptionSalt = ""
    /\ isLoggedIn = FALSE
    /\ PopupClosed
    /\ timerLog = <<>>
    /\ calls = NoCalls

\* the pages the user visits while the system runs
VisitedUrls == { ExampleCom \o <<"/">> }

Visit == \E url \in VisitedUrls : Request(url)

Next ==
    \/ Tick
    \/ Visit
    \/ cleanupExpiredTimers
    \/ OpenPopup
    \/ ClosePopup
    \/ blockSite
    \/ unblockSite
    \/ \E minutes \in TimerChoices : startTimer(minutes)
    \/ stopTimer
    \/ updateActiveTimerDisplay
    \/ \E form \in ScheduleForms : addSchedule(form)
    \/ \E d \in HeaderDetails : removeBlockFromHeader(d[1], d[2])
    \/ \E b \in AllBlocks : unblockFromManage(b[1], b[2], b[3])
    \/ \E importData \in ImportFiles : importBlocks(importData)

Spec == Init /\ [][Next]_vars

-----------------------------------------------------------------------------
(* The timer handlers step by step: each reads timerBlocks, and writes the *)
(* whole object back in a later step                                       *)

\* startTimer() up to the resolution of storage.local.get("timerBlocks")
StartTimerRead(minutes) ==
    /\ popupOpen
    /\ calls.timer.pc = "idle"
    /\ calls' = IF minutes <= 0 THEN calls
                ELSE [calls EXCEPT !.timer =
                         [pc |-> "read", origin |-> currentOrigin,
                          endTime |-> TimerEndTime(now, minutes),
                          minutes |-> minutes, at |-> now,
                          snapshot |-> timerBlocks]]
    /\ UNCHANGED <<now, storeVars, hintVars, legacyVars, requestVars, vaultVars,
                   pageVars, popupVars, tabUrl, timerLog>>

\* the rest of startTimer(): the write of the object it read with its own
\* entry set, then lastBlocked, the redirect and window.close()
StartTimerWrite ==
    /\ popupOpen
    /\ calls.timer.pc = "read"
    /\ timerBlocks' = SetKey(calls.timer.snapshot, calls.timer.origin,
                             Timer(calls.timer.endTime, calls.timer.minutes))
    /\ timerLog' = SetKey(timerLog, calls.timer.origin,
                          [at |-> calls.timer.at, minutes |-> calls.timer.minutes,
                           replaced |-> calls.timer.origin \in
                                            DOMAIN calls.timer.snapshot])
    /\ lastBlocked' = calls.timer.origin
    /\ tabUrl' = REDIRECT_URL
    /\ Closed
    /\ calls' = [calls EXCEPT !.timer = IdleTimerCall]
    /\ UNCHANGED <<now, blockedSites, scheduledBlocks, blockReason, legacyVars,
                   requestVars, vaultVars>>

\* cleanupExpiredTimers() up to the test of hasChanges
SweepRead ==
    /\ calls.sweep.pc = "idle"
    /\ calls' = IF DOMAIN UnexpiredTimers(timerBlocks, now) # DOMAIN timerBlocks
                THEN [calls EXCEPT !.sweep =
                         [pc |-> "write",
                          snapshot |-> UnexpiredTimers(timerBlocks, now)]]
                ELSE calls
    /\ UNCHANGED <<now, storeVars, hintVars, legacyVars, requestVars, vaultVars,
                   pageVars, popupVars, tabUrl, timerLog>>

\* a variant in which the sweep's write leaves alone the entries stored
\* since its read; C11 fails under it
SweepWritten_merged(snapshot, stored) ==
    [o \in DOMAIN stored |-> IF o \in DOMAIN snapshot THEN snapshot[o] ELSE stored[o]]

\* what the sweep's storage.local.set({ timerBlocks }) stores
SweepWritten(snapshot, stored) == snapshot

\* the rest of cleanupExpiredTimers(): the write
SweepWrite ==
    /\ calls.sweep.pc = "write"
    /\ timerBlocks' = SweepWritten(calls.sweep.snapshot, timerBlocks)
    /\ calls' = [calls EXCEPT !.sweep = IdleSweep]
    /\ UNCHANGED <<now, blockedSites, scheduledBlocks, hintVars, legacyVars,
                   requestVars, vaultVars, pageVars, popupVars, tabUrl, timerLog>>

\* updateActiveTimerDisplay() up to its return: for an expired timer it
\* starts the write and calls checkBlockingStatus() and showCurrentSiteInfo()
\* without waiting for it (an expired timer counts for neither, before or
\* after the write)
DisplayTick ==
    /\ popupOpen /\ timerInterval
    /\ calls.display.pc = "idle"
    /\ IF ~HasLiveTimerFor(currentOrigin)
       THEN /\ timerInterval' = FALSE
            /\ IF currentOrigin \in DOMAIN timerBlocks
               THEN /\ calls' = [calls EXCEPT !.display =
                                    [pc |-> "writing",
                                     value |-> DeleteKey(timerBlocks, currentOrigin),
                                     refreshed |-> TRUE]]
                    /\ actionBtn' = checkBlockingStatus(blockedSites,
                                        scheduledBlocks, timerBlocks,
                                        currentOrigin, now, actionBtn)
               ELSE UNCHANGED <<calls, actionBtn>>
       ELSE UNCHANGED <<timerInterval, calls, actionBtn>>
    /\ UNCHANGED <<now, storeVars, hintVars, legacyVars, requestVars, vaultVars,
                   pageVars, popupOpen, currentOrigin, tabUrl, timerLog>>

\* the write started by updateActiveTimerDisplay() completes
DisplayWrite ==
    /\ calls.display.pc = "writing"
    /\ timerBlocks' = calls.display.value
    /\ calls' = [calls EXCEPT !.display = IdleDisplay]
    /\ UNCHANGED <<now, blockedSites, scheduledBlocks, hintVars, legacyVars,
                   requestVars, vaultVars, pageVars, popupVars, tabUrl, timerLog>>

\* an installation on which a one-minute timer for https://sub.example.com
\* has just been started, the active tab on https://example.com/
InitAsync ==
    /\ now = StartInstant
    /\ blockedSites = <<>>
    /\ scheduledBlocks = <<>>
    /\ timerBlocks = SetKey(<<>>, SubExampleCom,
                            Timer(TimerEndTime(StartInstant, 1), 1))
    /\ timerLog = SetKey(<<>>, SubExampleCom, [at |-> StartInstant, minutes |-> 1,
                                                   replaced |-> FALSE])
    /\ lastBlocked = SubExampleCom
    /\ blockReason = ""
    /\ blockedDomainsStore = <<>>
    /\ blockedDomains = <<>>
    /\ listenerRegistered = FALSE
    /\ pendingMsg = NoUrl
    /\ response = Allow(NoUrl)
    /\ legacyResponse = Allow(NoUrl)
    /\ verdict = NoVerdict
    /\ tabUrl = ExampleCom \o <<"/">>
    /\ encryptedVerifier = NoVerifier
    /\ encryptionSalt = ""
    /\ isLoggedIn = FALSE
    /\ PopupClosed
    /\ calls = NoCalls

NextAsync ==
    \/ Tick
    \/ Visit
    \/ OpenPopup
    \/ ClosePopup
    \/ \E minutes \in TimerChoices : StartTimerRead(minutes)
    \/ StartTimerWrite
    \/ SweepRead
    \/ SweepWrite
    \/ DisplayTick
    \/ DisplayWrite

SpecAsync == InitAsync /\ [][NextAsync]_vars

\* the sweep is run by setInterval every 60 seconds, and a write it started
\* completes
SpecSweep == SpecAsync /\ WF_vars(SweepRead) /\ WF_vars(SweepWrite)

-----------------------------------------------------------------------------
(* The password vault and the url-rule form (part_000) *)

\* String.prototype.trim on a sequence of characters
RECURSIVE TrimStart(_)
TrimStart(chars) ==
    IF chars # <<>> /\ Head(chars) = " " THEN TrimStart(Tail(chars)) ELSE chars

RECURSIVE TrimEnd(_)
TrimEnd(chars) ==
    IF chars # <<>> /\ chars[Len(chars)] = " "
    THEN TrimEnd(SubSeq(chars, 1, Len(chars) - 1))
    ELSE chars

Trim(chars) == TrimEnd(TrimStart(chars))

\* the values crypto.getRandomValues can return for a salt and for an iv
Salts == {"salt1", "salt2"}

IVs == { [i \in 1..12 |-> 7 * i], [i \in 1..12 |-> 255 - i] }

\* a variant that regenerates the salt on every call; C10 fails under it
getOrCreateSalt_alwaysFresh(stored, fresh) == fresh

\* getOrCreateSalt(): the stored salt, or the fresh one when none is stored
\* (the caller stores what this returns)
getOrCreateSalt(stored, fresh) == IF stored # "" THEN stored ELSE fresh

\* getKeyFromPassphrase: PBKDF2 of the passphrase under the salt; two keys are
\* equal exactly when passphrase and salt are
getKeyFromPassphrase(passphrase, salt) == [passphrase |-> passphrase, salt |-> salt]

\* btoa(String.fromCharCode(...bytes)): the base64 digits (0..63) of the
\* bytes, three bytes to four digits, padded with "=" (written 64)
RECURSIVE ToBase64(_)
ToBase64(bytes) ==
    IF bytes = <<>> THEN <<>>
    ELSE IF Len(bytes) = 1
    THEN << bytes[1] \div 4, (bytes[1] % 4) * 16, 64, 64 >>
    ELSE IF Len(bytes) = 2
    THEN << bytes[1] \div 4, (bytes[1] % 4) * 16 + bytes[2] \div 16,
            (bytes[2] % 16) * 4, 64 >>
    ELSE << bytes[1] \div 4, (bytes[1] % 4) * 16 + bytes[2] \div 16,
            (bytes[2] % 16) * 4 + bytes[3] \div 64, bytes[3] % 64 >>
         \o ToBase64(SubSeq(bytes, 4, Len(bytes)))

\* atob(base64) read byte by byte with charCodeAt
RECURSIVE FromBase64(_)
FromBase64(digits) ==
    IF Len(digits) < 4 THEN <<>>
    ELSE (IF digits[3] = 64
          THEN << digits[1] * 4 + digits[2] \div 16 >>
          ELSE IF digits[4] = 64
          THEN << digits[1] * 4 + digits[2] \div 16,
                  (digits[2] % 16) * 16 + digits[3] \div 4 >>
          ELSE << digits[1] * 4 + digits[2] \div 16,
                  (digits[2] % 16) * 16 + digits[3] \div 4,
                  (digits[3] % 4) * 64 + digits[4] >>)
         \o FromBase64(SubSeq(digits, 5, Len(digits)))

arrayBufferToBase64(buffer) == ToBase64(buffer)

base64ToArrayBuffer(base64) == FromBase64(base64)

\* new TextEncoder().encode(data) and new TextDecoder().decode(bytes) for the
\* verifier token; any other bytes decode to some other text
TextEncode(data) == IF data = "verify" THEN <<118, 101, 114, 105, 102, 121>> ELSE <<>>

TextDecode(bytes) ==
    IF bytes = <<118, 101, 114, 105, 102, 121>> THEN "verify"
    ELSE IF bytes = <<>> THEN ""
    ELSE "garbled"

RECURSIVE SumOf(_)
SumOf(bytes) == IF bytes = <<>> THEN 0 ELSE Head(bytes) + SumOf(Tail(bytes))

\* the 16 bytes of the authentication tag of AES-GCM, which stand for the
\* tag over iv and data
GcmTag(iv, bytes) == [i \in 1..16 |-> (SumOf(bytes) + iv[1] + i) % 256]

\* crypto.subtle.encrypt({ name: "AES-GCM", iv }, key, bytes): the data under
\* a keystream that the iv stands for, followed by the tag
GcmEncrypt(iv, bytes) ==
    [i \in 1..Len(bytes) |-> (bytes[i] + iv[((i - 1) % 12) + 1]) % 256]
    \o GcmTag(iv, bytes)

\* the data bytes that a ciphertext holds under the iv
GcmData(iv, ciphertext) ==
    [i \in 1..(Len(ciphertext) - 16) |->
         (ciphertext[i] + 256 - iv[((i - 1) % 12) + 1]) % 256]

\* encryptPassword(data, key) with the iv it drew: base64 of the iv followed
\* by the ciphertext
encryptPassword(data, key, iv) ==
    Verifier(key, iv, data,
             arrayBufferToBase64(iv \o GcmEncrypt(iv, TextEncode(data))))

\* a variant that decrypts under any key; C9 fails under it
decryptPassword_anyKey(blob, key) == [throws |-> FALSE, text |-> blob.plaintext]

\* a variant without authentication, which turns a blob under another key
\* into some other text; C27 fails under it
decryptPassword_unauthenticated(blob, key) ==
    IF blob.key = key THEN [throws |-> FALSE, text |-> blob.plaintext]
    ELSE [throws |-> FALSE, text |-> "garbled"]

\* decryptPassword(dataB64, key): the first 12 bytes are the iv, the rest the
\* ciphertext; AES-GCM rejects any key but the one the ciphertext was made
\* under, and any ciphertext whose tag does not fit its iv and data
decryptPassword(blob, key) ==
    LET data       == base64ToArrayBuffer(blob.base64)
        iv         == SubSeq(data, 1, 12)
        ciphertext == SubSeq(data, 13, Len(data))
    IN IF /\ blob.key = key
          /\ Len(data) >= 12 + 16
          /\ SubSeq(ciphertext, Len(ciphertext) - 15, Len(ciphertext)) =
                 GcmTag(iv, GcmData(iv, ciphertext))
       THEN [throws |-> FALSE, text |-> TextDecode(GcmData(iv, ciphertext))]
       ELSE [throws |-> TRUE, text |-> ""]

\* what the user can type into a password field
Passwords ==
    { <<"a", "b", "c", "d">>, <<" ", "a", "b", "c", "d", " ">>,
      <<"a", "b", "c">>, <<"w", "r", "o", "n", "g">>, <<>>, <<" ">> }

\* a variant that accepts three characters; C23 fails under it
signup_minThree(input, fresh, iv) ==
    /\ popupOpen /\ page = "signup"
    /\ LET password == Trim(input)
       IN IF password = <<>> \/ Len(password) < 3
          THEN /\ message' = "Password must be at least 4 characters."
               /\ UNCHANGED <<encryptedVerifier, encryptionSalt, page>>
          ELSE LET salt == getOrCreateSalt(encryptionSalt, fresh)
                   key  == getKeyFromPassphrase(password, salt)
               IN /\ encryptionSalt' = salt
                  /\ encryptedVerifier' = encryptPassword("verify", key, iv)
                  /\ page' = "login"
                  /\ message' = "Please login to continue."
    /\ UNCHANGED <<now, storeVars, hintVars, legacyVars, requestVars, isLoggedIn,
                   popupVars, tabUrl, timerLog, calls>>

\* a variant that opens the session with the signup; C24 fails under it
signup_loggingIn(input, fresh, iv) ==
    /\ popupOpen /\ page = "signup"
    /\ LET password == Trim(input)
       IN IF password = <<>> \/ Len(password) < 4
          THEN /\ message' = "Password must be at least 4 characters."
               /\ UNCHANGED <<encryptedVerifier, encryptionSalt, page, isLoggedIn>>
          ELSE LET salt == getOrCreateSalt(encryptionSalt, fresh)
                   key  == getKeyFromPassphrase(password, salt)
               IN /\ encryptionSalt' = salt
                  /\ encryptedVerifier' = encryptPassword("verify", key, iv)
                  /\ isLoggedIn' = TRUE
                  /\ page' = "home"
                  /\ message' = "Welcome!"
    /\ UNCHANGED <<now, storeVars, hintVars, legacyVars, requestVars,
                   popupVars, tabUrl, timerLog, calls>>

\* the click on signup-btn
signup(input, fresh, iv) ==
    /\ popupOpen /\ page = "signup"
    /\ LET password == Trim(input)
       IN IF password = <<>> \/ Len(password) < 4
          THEN /\ message' = "Password must be at least 4 characters."
               /\ UNCHANGED <<encryptedVerifier, encryptionSalt, page>>
          ELSE LET salt == getOrCreateSalt(encryptionSalt, fresh)
                   key  == getKeyFromPassphrase(password, salt)
               IN /\ encryptionSalt' = salt
                  /\ encryptedVerifier' = encryptPassword("verify", key, iv)
                  /\ page' = "login"
                  /\ message' = "Please login to continue."
    /\ UNCHANGED <<now, storeVars, hintVars, legacyVars, requestVars, isLoggedIn,
                   popupVars, tabUrl, timerLog, calls>>

\* a variant that drops the verifier when decryption fails; C26 fails under it
login_resetsOnFailure(input, fresh) ==
    /\ popupOpen /\ page = "login"
    /\ LET password == Trim(input)
       IN IF password = <<>>
          THEN /\ message' = "Enter your password."
               /\ UNCHANGED <<encryptionSalt, isLoggedIn, page, encryptedVerifier>>
          ELSE LET salt == getOrCreateSalt(encryptionSalt, fresh)
                   key  == getKeyFromPassphrase(password, salt)
                   decrypted == decryptPassword(encryptedVerifier, key)
               IN /\ encryptionSalt' = salt
                  /\ IF decrypted.throws
                     THEN /\ encryptedVerifier' = NoVerifier
                          /\ page' = "signup"
                          /\ message' = "No password found. Please sign up."
                          /\ UNCHANGED isLoggedIn
                     ELSE /\ isLoggedIn' = TRUE
                          /\ page' = "home"
                          /\ message' = "Welcome!"
                          /\ UNCHANGED encryptedVerifier
    /\ UNCHANGED <<now, storeVars, hintVars, legacyVars, requestVars,
                   popupVars, tabUrl, timerLog, calls>>

\* the click on login-btn
login(input, fresh) ==
    /\ popupOpen /\ page = "login"
    /\ LET password == Trim(input)
       IN IF password = <<>>
          THEN /\ message' = "Enter your password."
               /\ UNCHANGED <<encryptionSalt, isLoggedIn, page>>
          ELSE LET salt == getOrCreateSalt(encryptionSalt, fresh)
                   key  == getKeyFromPassphrase(password, salt)
                   decrypted == decryptPassword(encryptedVerifier, key)
               IN /\ encryptionSalt' = salt
                  /\ IF ~encryptedVerifier.present
                     THEN /\ page' = "signup"
                          /\ message' = "No password found. Please sign up."
                          /\ UNCHANGED isLoggedIn
                     ELSE IF decrypted.throws
                     THEN /\ message' = "Incorrect password or corrupted data."
                          /\ UNCHANGED <<isLoggedIn, page>>
                     ELSE IF decrypted.text = "verify"
                     THEN /\ isLoggedIn' = TRUE
                          /\ page' = "home"
                          /\ message' = "Welcome!"
                     ELSE /\ message' = "Incorrect password."
                          /\ UNCHANGED <<isLoggedIn, page>>
    /\ UNCHANGED <<now, storeVars, hintVars, legacyVars, requestVars,
                   encryptedVerifier, popupVars, tabUrl, timerLog, calls>>

\* a variant in which the flag outlives the session; C25 fails under it
SessionEnd_persistent ==
    /\ isLoggedIn
    /\ Closed
    /\ UNCHANGED <<now, storeVars, hintVars, legacyVars, requestVars, vaultVars,
                   tabUrl, timerLog, calls>>

\* the browsing session ends: storage.session is dropped with the popup
SessionEnd ==
    /\ isLoggedIn
    /\ isLoggedIn' = FALSE
    /\ Closed
    /\ UNCHANGED <<now, storeVars, hintVars, legacyVars, requestVars,
                   encryptedVerifier, encryptionSalt, tabUrl, timerLog, calls>>

Schemes == {"https://", "http://", "moz-extension://", "about:"}

\* whether new URL(input) succeeds
ParsesAsUrl(input) == Len(input) >= 2 /\ input[1] \in Schemes

\* new URL(input).href: a hierarchical url without a path gets the path "/"
Href(input) ==
    IF IsHierarchical(input) /\ HostEnd(input) = Len(input)
    THEN input \o <<"/">>
    ELSE input

\* String.prototype.toLowerCase on the tokens of a url
ToLowerCase(url) == [i \in DOMAIN url |-> IF url[i] = "Page" THEN "page" ELSE url[i]]

\* what the user can have in the form of the home page when clicking Block:
\* the url field, the selected days, the two times and the redirect field
BlockForms ==
    { [url |-> u, days |-> {"Mon"}, from |-> HHmm(480), to |-> HHmm(1020),
       redirect |-> r] :
          u \in { ExampleCom, ExampleCom \o <<"/", "page">>,
                  ExampleCom \o <<"/", "Page">> },
          r \in { NoUrl, <<"focus.example">> } }
    \cup { [url |-> NoUrl, days |-> {"Mon"}, from |-> HHmm(480), to |-> HHmm(1020),
            redirect |-> NoUrl],
           [url |-> <<"example.com">>, days |-> {"Mon"}, from |-> HHmm(480),
            to |-> HHmm(1020), redirect |-> NoUrl],
           [url |-> ExampleCom, days |-> {}, from |-> HHmm(480), to |-> HHmm(1020),
            redirect |-> NoUrl],
           [url |-> ExampleCom, days |-> {"Mon"}, from |-> <<>>, to |-> HHmm(1020),
            redirect |-> NoUrl],
           [url |-> ExampleCom, days |-> {"Mon"}, from |-> HHmm(480),
            to |-> HHmm(1020), redirect |-> <<"not a host">>] }

\* whether new URL("https://" + redirectUrl) succeeds
ParsesAsHost(input) == \A i \in 1..Len(input) : input[i] # "not a host"

\* blockedDomains with newEntry in place of the entry of the same url
\* (compared in lower case), or pushed at the end
WithEntry(domains, newEntry) ==
    IF \E i \in 1..Len(domains) :
           ToLowerCase(domains[i].url) = ToLowerCase(newEntry.url)
    THEN LET existingIndex ==
                 CHOOSE i \in 1..Len(domains) :
                     /\ ToLowerCase(domains[i].url) = ToLowerCase(newEntry.url)
                     /\ \A j \in 1..(i - 1) :
                            ToLowerCase(domains[j].url) # ToLowerCase(newEntry.url)
         IN [domains EXCEPT ![existingIndex] = newEntry]
    ELSE Append(domains, newEntry)

\* handleBlockSite(): the click on the primary button of the home page; the
\* write reaches the background script's storage.onChanged listener, which
\* replaces its copy and runs updateRequestListener
handleBlockSite(form) ==
    /\ popupOpen /\ page = "home"
    /\ IF \/ form.url = NoUrl
          \/ ~ParsesAsUrl(form.url)
          \/ form.days = {}
          \/ form.from = <<>> \/ form.to = <<>>
          \/ (form.redirect # NoUrl /\ ~ParsesAsHost(form.redirect))
       THEN UNCHANGED legacyVars
       ELSE LET fullUrl  == Href(form.url)
                newEntry == UrlRule(fullUrl, form.days, form.from, form.to,
                                    form.redirect)
            IN /\ blockedDomainsStore' = WithEntry(blockedDomainsStore, newEntry)
               /\ blockedDomains' = blockedDomainsStore'
               /\ listenerRegistered' = (Len(blockedDomains') > 0)
               /\ pendingMsg' = fullUrl
    /\ UNCHANGED <<now, storeVars, hintVars, requestVars, vaultVars, pageVars,
                   popupVars, tabUrl, timerLog, calls>>

\* the background script's onMessage listener taking a redirectBlockedTab
\* message
redirectBlockedTab ==
    /\ pendingMsg # NoUrl
    /\ pendingMsg' = NoUrl
    /\ tabUrl' = IF shouldBlockRequest(pendingMsg, blockedDomains, now) # NoUrl
                 THEN shouldBlockRequest(pendingMsg, blockedDomains, now)
                 ELSE tabUrl
    /\ UNCHANGED <<now, storeVars, hintVars, blockedDomainsStore, blockedDomains,
                   listenerRegistered, requestVars, vaultVars, pageVars, popupVars,
                   timerLog, calls>>

\* the vault popup on a fresh installation
InitVault == Init

NextVault ==
    \/ OpenPopup
    \/ ClosePopup
    \/ \E input \in Passwords, fresh \in Salts, iv \in IVs : signup(input, fresh, iv)
    \/ \E input \in Passwords, fresh \in Salts : login(input, fresh)
    \/ SessionEnd
    \/ \E form \in BlockForms : handleBlockSite(form)
    \/ redirectBlockedTab

SpecVault == InitVault /\ [][NextVault]_vars

-----------------------------------------------------------------------------
(* The edges through which site keys come in *)

\* a site a backup file names without a scheme: new URL would reject it
RawSite == <<"example.com">>

\* the parsed files of this section: one naming a site that is no URL, one
\* naming an origin
EdgeImportFiles ==
    { ImportData(TRUE, <<RawSite>>, FALSE, <<>>),
      ImportData(TRUE, <<ExampleCom>>, FALSE, <<>>) }

\* a fresh installation with the active tab on a site, or on the extension's
\* blocked page opened by its address (lastBlocked is still absent)
InitEdge ==
    /\ now = StartInstant
    /\ blockedSites = <<>>
    /\ scheduledBlocks = <<>>
    /\ timerBlocks = <<>>
    /\ lastBlocked = NoUrl
    /\ blockReason = ""
    /\ blockedDomainsStore = <<>>
    /\ blockedDomains = <<>>
    /\ listenerRegistered = FALSE
    /\ pendingMsg = NoUrl
    /\ response = Allow(NoUrl)
    /\ legacyResponse = Allow(NoUrl)
    /\ verdict = NoVerdict
    /\ tabUrl \in { ExampleCom \o <<"/">>, REDIRECT_URL }
    /\ encryptedVerifier = NoVerifier
    /\ encryptionSalt = ""
    /\ isLoggedIn = FALSE
    /\ PopupClosed
    /\ timerLog = <<>>
    /\ calls = NoCalls

NextEdge ==
    \/ OpenPopup
    \/ ClosePopup
    \/ blockSite
    \/ \E minutes \in TimerChoices : startTimer(minutes)
    \/ \E form \in ScheduleForms : addSchedule(form)
    \/ \E importData \in EdgeImportFiles : importBlocks(importData)

SpecEdge == InitEdge /\ [][NextEdge]_vars

-----------------------------------------------------------------------------
(* Storage calls that fail: each handler run as a whole, with the storage   *)
(* call of it that rejects, if any, as an input                             *)

\* what storage.local holds of the rules and the hints
Persisted ==
    [blockedSites |-> blockedSites, scheduledBlocks |-> scheduledBlocks,
     timerBlocks |-> timerBlocks, lastBlocked |-> lastBlocked,
     blockReason |-> blockReason]

\* the last handler that ran: its name, whether a storage call of it
\* rejected, and what storage held when it started
NoOperation == [name |-> "none", failed |-> FALSE, before |-> <<>>]

Ended(name, failed) ==
    [calls EXCEPT !.last = [name |-> name, failed |-> failed, before |-> Persisted]]

\* the storage calls of startTimer() in their order
StartTimerCalls == <<"get timerBlocks", "set timerBlocks", "set lastBlocked">>

\* whether the handler gets past the storage call named step when the call
\* named failure rejects
Passes(storageCalls, step, failure) ==
    \A i \in 1..Len(storageCalls) :
        storageCalls[i] = failure =>
            \E j \in 1..(i - 1) : storageCalls[j] = step

\* startTimer() with a storage call that may reject: each .then runs only when
\* the promise before it was fulfilled, and nothing catches a rejection
startTimerFailing(minutes, failure) ==
    /\ popupOpen
    /\ minutes > 0
    /\ IF Passes(StartTimerCalls, "set timerBlocks", failure)
       THEN /\ timerBlocks' = SetKey(timerBlocks, currentOrigin,
                                     Timer(TimerEndTime(now, minutes), minutes))
            /\ timerLog' = SetKey(timerLog, currentOrigin,
                                  [at |-> now, minutes |-> minutes,
                                   replaced |-> currentOrigin \in DOMAIN timerBlocks])
       ELSE UNCHANGED <<timerBlocks, timerLog>>
    /\ IF Passes(StartTimerCalls, "set lastBlocked", failure)
       THEN /\ lastBlocked' = currentOrigin
            /\ tabUrl' = REDIRECT_URL
            /\ Closed
       ELSE UNCHANGED <<lastBlocked, tabUrl, pageVars, popupVars>>
    /\ calls' = Ended("startTimer", failure # "none")
    /\ UNCHANGED <<now, blockedSites, scheduledBlocks, blockReason, legacyVars,
                   requestVars, vaultVars>>

\* cleanupExpiredTimers() with a storage call that may reject: the catch logs
\* the error; set is called only when a timer was deleted
cleanupExpiredTimersFailing(failure) ==
    /\ failure = "set timerBlocks" =>
           DOMAIN UnexpiredTimers(timerBlocks, now) # DOMAIN timerBlocks
    /\ timerBlocks' = IF failure = "none" THEN UnexpiredTimers(timerBlocks, now)
                      ELSE timerBlocks
    /\ calls' = Ended("cleanupExpiredTimers", failure # "none")
    /\ UNCHANGED <<now, blockedSites, scheduledBlocks, hintVars, legacyVars,
                   requestVars, vaultVars, pageVars, popupVars, tabUrl, timerLog>>

\* onBeforeRequestListener(details) with a storage call that may reject: the
\* catch logs the error and the request is allowed; set is called only for a
\* positive verdict
onBeforeRequestListenerFailing(url, failure) ==
    LET origin == getOrigin(url)
        status == getBlockingStatus(origin, blockedSites, scheduledBlocks,
                                    timerBlocks, now)
    IN /\ ~IsExempt(url)
       /\ failure = "set lastBlocked" => status.shouldBlock
       /\ IF failure = "none"
          THEN onBeforeRequestListener(url)
          ELSE /\ response' = Allow(url)
               /\ verdict' = [called |-> TRUE, origin |-> origin,
                              shouldBlock |-> FALSE, reason |-> "", threw |-> TRUE]
               /\ UNCHANGED <<lastBlocked, blockReason>>

RequestFailing(url, failure) ==
    /\ onBeforeRequestListenerFailing(url, failure)
    /\ RedirectListener(url)
    /\ tabUrl' = IF response'.redirectUrl # NoUrl THEN response'.redirectUrl
                  ELSE url
    /\ calls' = Ended("onBeforeRequestListener", failure # "none")
    /\ UNCHANGED <<now, storeVars, legacyVars, vaultVars, pageVars, popupVars,
                   timerLog>>

\* a fresh installation, the active tab on https://example.com/
InitFail ==
    /\ now = StartInstant
    /\ blockedSites = <<>>
    /\ scheduledBlocks = <<>>
    /\ timerBlocks = <<>>
    /\ lastBlocked = NoUrl
    /\ blockReason = ""
    /\ blockedDomainsStore = <<>>
    /\ blockedDomains = <<>>
    /\ listenerRegistered = FALSE
    /\ pendingMsg = NoUrl
    /\ response = Allow(NoUrl)
    /\ legacyResponse = Allow(NoUrl)
    /\ verdict = NoVerdict
    /\ tabUrl = ExampleCom \o <<"/">>
    /\ encryptedVerifier = NoVerifier
    /\ encryptionSalt = ""
    /\ isLoggedIn = FALSE
    /\ PopupClosed
    /\ timerLog = <<>>
    /\ calls = [timer |-> IdleTimerCall, sweep |-> IdleSweep,
                display |-> IdleDisplay, last |-> NoOperation]

NextFail ==
    \/ Tick
    \/ OpenPopup
    \/ ClosePopup
    \/ \E minutes \in TimerChoices, failure \in {"none", "get timerBlocks", "set timerBlocks", "set lastBlocked"} :
           startTimerFailing(minutes, failure)
    \/ \E failure \in {"none", "get timerBlocks", "set timerBlocks"} :
           cleanupExpiredTimersFailing(failure)
    \/ \E url \in VisitedUrls, failure \in {"none", "get rules", "set lastBlocked"} :
           RequestFailing(url, failure)

SpecFail == InitFail /\ [][NextFail]_vars

-----------------------------------------------------------------------------
(* The signup and login handlers await by await: two clicks start two      *)
(* handlers, whose steps between awaits interleave                          *)

\* the handlers that can be running at once
Handlers == {1, 2}

\* a handler between two awaits: the button clicked, the trimmed password,
\* and the salt getOrCreateSalt holds
IdleHandler == [pc |-> "idle", button |-> "", password |-> <<>>, salt |-> ""]

\* what the user types in this section
TypedPasswords == { <<"a", "b", "c", "d">>, <<"w", "r", "o", "n", "g">>, <<"a", "b", "c">> }

\* the click on signup-btn up to the first await of getOrCreateSalt
SignupClick(h, input) ==
    /\ popupOpen /\ page = "signup"
    /\ calls.vault[h].pc = "idle"
    /\ LET password == Trim(input)
       IN IF password = <<>> \/ Len(password) < 4
          THEN /\ message' = "Password must be at least 4 characters."
               /\ UNCHANGED calls
          ELSE /\ calls' = [calls EXCEPT !.vault[h] =
                               [pc |-> "getSalt", button |-> "signup",
                                password |-> password, salt |-> ""]]
               /\ UNCHANGED message
    /\ UNCHANGED <<now, storeVars, hintVars, legacyVars, requestVars, vaultVars,
                   popupVars, tabUrl, timerLog, page>>

\* the click on login-btn up to the first await of getOrCreateSalt
LoginClick(h, input) ==
    /\ popupOpen /\ page = "login"
    /\ calls.vault[h].pc = "idle"
    /\ LET password == Trim(input)
       IN IF password = <<>>
          THEN /\ message' = "Enter your password."
               /\ UNCHANGED calls
          ELSE /\ calls' = [calls EXCEPT !.vault[h] =
                               [pc |-> "getSalt", button |-> "login",
                                password |-> password, salt |-> ""]]
               /\ UNCHANGED message
    /\ UNCHANGED <<now, storeVars, hintVars, legacyVars, requestVars, vaultVars,
                   popupVars, tabUrl, timerLog, page>>

\* getOrCreateSalt() after storage.local.get resolved: the stored salt, or a
\* fresh one that is still to be written
SaltRead(h, fresh) ==
    /\ calls.vault[h].pc = "getSalt"
    /\ calls' = [calls EXCEPT !.vault[h].salt = getOrCreateSalt(encryptionSalt, fresh),
                              !.vault[h].pc = IF encryptionSalt # "" THEN "haveKey"
                                              ELSE "setSalt"]
    /\ UNCHANGED <<now, storeVars, hintVars, legacyVars, requestVars, vaultVars,
                   pageVars, popupVars, tabUrl, timerLog>>

\* getOrCreateSalt()'s storage.local.set({ encryptionSalt })
SaltWrite(h) ==
    /\ calls.vault[h].pc = "setSalt"
    /\ encryptionSalt' = calls.vault[h].salt
    /\ calls' = [calls EXCEPT !.vault[h].pc = "haveKey"]
    /\ UNCHANGED <<now, storeVars, hintVars, legacyVars, requestVars,
                   encryptedVerifier, isLoggedIn, pageVars, popupVars, tabUrl,
                   timerLog>>

\* the rest of the signup handler: the key from the salt it holds, the
\* verifier, its write and showPage
SignupWrite(h, iv) ==
    /\ calls.vault[h].pc = "haveKey" /\ calls.vault[h].button = "signup"
    /\ LET key == getKeyFromPassphrase(calls.vault[h].password, calls.vault[h].salt)
       IN encryptedVerifier' = encryptPassword("verify", key, iv)
    /\ page' = "login"
    /\ message' = "Please login to continue."
    /\ calls' = [calls EXCEPT !.vault[h] = IdleHandler]
    /\ UNCHANGED <<now, storeVars, hintVars, legacyVars, requestVars,
                   encryptionSalt, isLoggedIn, popupVars, tabUrl, timerLog>>

\* the rest of the login handler: the read of the verifier, the decryption
\* under the key from the salt it holds, and the outcome
LoginFinish(h) ==
    /\ calls.vault[h].pc = "haveKey" /\ calls.vault[h].button = "login"
    /\ LET key == getKeyFromPassphrase(calls.vault[h].password, calls.vault[h].salt)
           decrypted == decryptPassword(encryptedVerifier, key)
       IN IF ~encryptedVerifier.present
          THEN /\ page' = "signup"
               /\ message' = "No password found. Please sign up."
               /\ UNCHANGED isLoggedIn
          ELSE IF decrypted.throws
          THEN /\ message' = "Incorrect password or corrupted data."
               /\ UNCHANGED <<isLoggedIn, page>>
          ELSE IF decrypted.text = "verify"
          THEN /\ isLoggedIn' = TRUE
               /\ page' = "home"
               /\ message' = "Welcome!"
          ELSE /\ message' = "Incorrect password."
               /\ UNCHANGED <<isLoggedIn, page>>
    /\ calls' = [calls EXCEPT !.vault[h] = IdleHandler]
    /\ UNCHANGED <<now, storeVars, hintVars, legacyVars, requestVars,
                   encryptedVerifier, encryptionSalt, popupVars, tabUrl, timerLog>>

\* a fresh installation, the active tab on https://example.com/
InitHandlers ==
    /\ now = StartInstant
    /\ blockedSites = <<>>
    /\ scheduledBlocks = <<>>
    /\ timerBlocks = <<>>
    /\ lastBlocked = NoUrl
    /\ blockReason = ""
    /\ blockedDomainsStore = <<>>
    /\ blockedDomains = <<>>
    /\ listenerRegistered = FALSE
    /\ pendingMsg = NoUrl
    /\ response = Allow(NoUrl)
    /\ legacyResponse = Allow(NoUrl)
    /\ verdict = NoVerdict
    /\ tabUrl = ExampleCom \o <<"/">>
    /\ encryptedVerifier = NoVerifier
    /\ encryptionSalt = ""
    /\ isLoggedIn = FALSE
    /\ PopupClosed
    /\ timerLog = <<>>
    /\ calls = [timer |-> IdleTimerCall, sweep |-> IdleSweep,
                display |-> IdleDisplay, vault |-> [h \in Handlers |-> IdleHandler]]

NextHandlers ==
    \/ OpenPopup
    \/ \E h \in Handlers, input \in TypedPasswords : SignupClick(h, input)
    \/ \E h \in Handlers, input \in TypedPasswords : LoginClick(h, input)
    \/ \E h \in Handlers, fresh \in Salts : SaltRead(h, fresh)
    \/ \E h \in Handlers : SaltWrite(h)
    \/ \E h \in Handlers, iv \in IVs : SignupWrite(h, iv)
    \/ \E h \in Handlers : LoginFinish(h)

SpecHandlers == InitHandlers /\ [][NextHandlers]_vars

-----------------------------------------------------------------------------
(* The popup's view of a rule-store snapshot beside the background's *)

\* the schedule lists of the snapshots of this section: the well-formed ones
\* and those with a corrupt schedule
AgreeLists == ScheduleLists \cup MalformedLists

\* snapshots of the rules of example.com, the active tab showing the site
InitAgree ==
    /\ now \in ClockInstants
    /\ \E instant \in BOOLEAN,
          ends \in {{}} \cup {{e} : e \in TimerEnds(now)},
          list \in AgreeLists :
          /\ blockedSites = IF instant THEN <<ExampleCom>> ELSE <<>>
          /\ timerBlocks = IF ends = {} THEN <<>>
                           ELSE [o \in {ExampleCom} |->
                                    Timer(CHOOSE e \in ends : TRUE, 1)]
          /\ scheduledBlocks = IF list = <<>> THEN <<>>
                               ELSE [o \in {ExampleCom} |-> list]
    /\ blockedDomainsStore = <<>>
    /\ blockedDomains = <<>>
    /\ listenerRegistered = FALSE
    /\ lastBlocked = NoUrl
    /\ blockReason = ""
    /\ response = Allow(NoUrl)
    /\ legacyResponse = Allow(NoUrl)
    /\ verdict = NoVerdict
    /\ pendingMsg = NoUrl
    /\ tabUrl = ExampleCom \o <<"/">>
    /\ encryptedVerifier = NoVerifier
    /\ encryptionSalt = ""
    /\ isLoggedIn = FALSE
    /\ PopupClosed
    /\ timerLog = <<>>
    /\ calls = NoCalls

NextAgree ==
    \/ OpenPopup
    \/ ClosePopup
    \/ Visit

SpecAgree == InitAgree /\ [][NextAgree]_vars

-----------------------------------------------------------------------------
(* The popup on one site while the store holds rules of another *)

\* the rules https://sub.example.com can have: an instant rule, a two-minute
\* timer, a Monday 09:00-17:00 schedule
InitFrame ==
    /\ now = StartInstant
    /\ blockedSites \in {<<>>, <<SubExampleCom>>}
    /\ scheduledBlocks \in
           {<<>>, [o \in {SubExampleCom} |->
                      <<Schedule(1, Days({1}), Str(HHmm(540)), Str(HHmm(1020)))>>]}
    /\ timerBlocks \in
           {<<>>, [o \in {SubExampleCom} |-> Timer(TimerEndTime(StartInstant, 2), 2)]}
    /\ lastBlocked = NoUrl
    /\ blockReason = ""
    /\ blockedDomainsStore = <<>>
    /\ blockedDomains = <<>>
    /\ listenerRegistered = FALSE
    /\ pendingMsg = NoUrl
    /\ response = Allow(NoUrl)
    /\ legacyResponse = Allow(NoUrl)
    /\ verdict = NoVerdict
    /\ tabUrl = ExampleCom \o <<"/">>
    /\ encryptedVerifier = NoVerifier
    /\ encryptionSalt = ""
    /\ isLoggedIn = FALSE
    /\ PopupClosed
    /\ timerLog = <<>>
    /\ calls = NoCalls

NextFrame ==
    \/ OpenPopup
    \/ ClosePopup
    \/ blockSite
    \/ unblockSite
    \/ \E minutes \in TimerChoices : startTimer(minutes)
    \/ stopTimer
    \/ \E form \in ScheduleForms : addSchedule(form)
    \/ \E d \in HeaderDetails : removeBlockFromHeader(d[1], d[2])
    \/ \E b \in AllBlocks : unblockFromManage(b[1], b[2], b[3])

SpecFrame == InitFrame /\ [][NextFrame]_vars

-----------------------------------------------------------------------------
(* What the specification says of a rule-store snapshot, stated without    *)
(* the operators that model the code                                       *)

\* the minutes of the day that the schedules of the model start and end at
WindowMinutes == {0, 360, 540, 720, 1020, 1320, 1439}

\* the minute of the day a well-formed "HH:mm" value denotes
MinuteOf(time) == CHOOSE m \in WindowMinutes : HHmm(m) = time.chars

IsSameDay(s) == MinuteOf(s.startTime) <= MinuteOf(s.endTime)

\* section 4.1: the weekday is listed and now lies in the window
ActiveNow(s) ==
    LET start == MinuteOf(s.startTime)
        end   == MinuteOf(s.endTime)
        cur   == currentTimeInMinutes(now)
    IN /\ getDay(now) \in s.days.elems
       /\ IF start <= end THEN start <= cur /\ cur <= end
          ELSE cur >= start \/ cur <= end

HasInstantRule(o) == \E i \in DOMAIN blockedSites : blockedSites[i] = o

HasLiveTimer(o) == o \in DOMAIN timerBlocks /\ timerBlocks[o].endTime > now

SchedulesOf(o) == IF o \in DOMAIN scheduledBlocks THEN scheduledBlocks[o] ELSE <<>>

HasActiveSchedule(o) ==
    \E i \in DOMAIN SchedulesOf(o) : ActiveNow(SchedulesOf(o)[i])

-----------------------------------------------------------------------------
(* Claims about the decision, checked under SpecDecide *)

\* C1: getBlockingStatus returns shouldBlock = true exactly when the origin is
\* in blockedSites, or has a timer with endTime > now, or has a schedule that
\* is active now.
C1_BlockedIffSomeRuleApplies ==
    verdict.called =>
        (verdict.shouldBlock <=>
            \/ HasInstantRule(verdict.origin)
            \/ HasLiveTimer(verdict.origin)
            \/ HasActiveSchedule(verdict.origin))

\* C1 witness: blocked by a schedule alone, beside a timer that ended now
C1_Witness ==
    /\ verdict.called /\ verdict.shouldBlock
    /\ ~HasInstantRule(verdict.origin)
    /\ verdict.origin \in DOMAIN timerBlocks
    /\ timerBlocks[verdict.origin].endTime = now
    /\ HasActiveSchedule(verdict.origin)

\* C2: the reason follows the precedence instant, timer, schedule: an instant
\* rule gives "instant" whatever else exists; "timer" is given exactly when
\* there is no instant rule and the timer is unexpired; "schedule" only when
\* neither of the first two matches.
C2_ReasonPrecedence ==
    verdict.called =>
        /\ HasInstantRule(verdict.origin) => verdict.reason = "instant"
        /\ verdict.reason = "timer" <=>
               (~HasInstantRule(verdict.origin) /\ HasLiveTimer(verdict.origin))
        /\ verdict.reason = "schedule" =>
               /\ ~HasInstantRule(verdict.origin)
               /\ ~HasLiveTimer(verdict.origin)
               /\ HasActiveSchedule(verdict.origin)

\* C2 witness: all three kinds of rule apply and the reason is "instant"
C2_Witness ==
    /\ verdict.called /\ verdict.reason = "instant"
    /\ HasInstantRule(verdict.origin)
    /\ HasLiveTimer(verdict.origin)
    /\ HasActiveSchedule(verdict.origin)

\* a URL of the extension or of the browser itself
IsInternalUrl(url) ==
    url # NoUrl /\ url[1] \in {"about:", "moz-extension://"}

\* C3 (as claimed): for a navigation to a URL that is not internal, the
\* interceptor redirects to the blocked page exactly when the decision for
\* the URL's origin is shouldBlock = true.
C3_RedirectIffBlocked ==
    (response.url # NoUrl /\ ~IsInternalUrl(response.url)) =>
        (response.redirectUrl = REDIRECT_URL <=>
            \/ HasInstantRule(getOrigin(response.url))
            \/ HasLiveTimer(getOrigin(response.url))
            \/ HasActiveSchedule(getOrigin(response.url)))

\* C20: navigations to extension-internal pages and browser-internal URLs
\* are always allowed without consulting the rule store, so the blocked page
\* itself is never redirected, and only such internal URLs are exempted from
\* the decision.
C20_OnlyInternalUrlsExempt ==
    response.url # NoUrl =>
        /\ IsInternalUrl(response.url) =>
               (response.redirectUrl = NoUrl /\ ~verdict.called)
        /\ ~verdict.called => IsInternalUrl(response.url)

\* a step of one of the popup's rule mutations
RuleMutation ==
    \/ blockSite
    \/ unblockSite
    \/ stopTimer
    \/ \E minutes \in TimerChoices : startTimer(minutes)
    \/ \E form \in ScheduleForms : addSchedule(form)
    \/ \E d \in HeaderDetails : removeBlockFromHeader(d[1], d[2])
    \/ \E b \in AllBlocks : unblockFromManage(b[1], b[2], b[3])
    \/ \E importData \in ImportFiles : importBlocks(importData)

\* C4 (as claimed): no rule mutation (blockSite, addSchedule, startTimer,
\* stopTimer, unblockSite, removeBlockFromHeader, unblockFromManage,
\* importBlocks) changes the rule store unless an encryptedVerifier exists and
\* isLoggedIn is true.
C4_MutationRequiresLogin ==
    [][(RuleMutation /\ <<storeVars, blockedDomainsStore>>' # <<storeVars, blockedDomainsStore>>)
           => (encryptedVerifier.present /\ isLoggedIn)]_vars

\* C5: for schedules with start <= end the evaluator reports active exactly
\* when the weekday is listed and start <= currentMinutes <= end, both ends
\* included.
C5_SameDayWindowInclusive ==
    LET o    == verdict.origin
        list == SchedulesOf(o)
    IN (/\ verdict.called
        /\ ~HasInstantRule(o) /\ ~HasLiveTimer(o)
        /\ \A i \in DOMAIN list : IsSameDay(list[i]))
       => (verdict.shouldBlock <=>
             \E i \in DOMAIN list :
                 /\ getDay(now) \in list[i].days.elems
                 /\ MinuteOf(list[i].startTime) <= currentTimeInMinutes(now)
                 /\ currentTimeInMinutes(now) <= MinuteOf(list[i].endTime))

\* C5 witness: a single same-day schedule evaluated at exactly its end minute
C5_Witness ==
    LET list == SchedulesOf(verdict.origin)
    IN /\ verdict.called /\ verdict.reason = "schedule"
       /\ Len(list) = 1
       /\ MinuteOf(list[1].startTime) < MinuteOf(list[1].endTime)
       /\ currentTimeInMinutes(now) = MinuteOf(list[1].endTime)

\* C6: for overnight schedules (start > end) the evaluator reports active
\* exactly when the weekday is listed and currentMinutes >= start or
\* currentMinutes <= end; it is inactive strictly between end and start.
C6_OvernightWindow ==
    LET o    == verdict.origin
        list == SchedulesOf(o)
        cur  == currentTimeInMinutes(now)
    IN (/\ verdict.called
        /\ ~HasInstantRule(o) /\ ~HasLiveTimer(o)
        /\ \A i \in DOMAIN list : ~IsSameDay(list[i]))
       => /\ verdict.shouldBlock <=>
               \E i \in DOMAIN list :
                   /\ getDay(now) \in list[i].days.elems
                   /\ \/ cur >= MinuteOf(list[i].startTime)
                      \/ cur <= MinuteOf(list[i].endTime)
          /\ (\A i \in DOMAIN list :
                  /\ MinuteOf(list[i].endTime) < cur
                  /\ cur < MinuteOf(list[i].startTime)) => ~verdict.shouldBlock

\* C6 witness: an overnight schedule evaluated in its early-morning part
C6_Witness ==
    LET list == SchedulesOf(verdict.origin)
    IN /\ verdict.called /\ verdict.reason = "schedule"
       /\ Len(list) = 1
       /\ MinuteOf(list[1].startTime) > MinuteOf(list[1].endTime)
       /\ currentTimeInMinutes(now) < MinuteOf(list[1].endTime)

\* C7: a request is blocked only by rules stored under its own origin string:
\* the decision blocks an origin only if blockedSites, timerBlocks or
\* scheduledBlocks holds that very origin, and the url rules redirect a
\* request only if a rule holds that very URL.
C7_ExactOriginMatch ==
    /\ (verdict.called /\ verdict.shouldBlock) =>
           \/ HasInstantRule(verdict.origin)
           \/ verdict.origin \in DOMAIN timerBlocks
           \/ verdict.origin \in DOMAIN scheduledBlocks
    /\ legacyResponse.redirectUrl # NoUrl =>
           \E i \in DOMAIN blockedDomains :
               /\ blockedDomains[i].url = legacyResponse.url
               /\ getOrigin(blockedDomains[i].url) = getOrigin(legacyResponse.url)

\* C7 witness: example.com has an instant rule and a request to
\* sub.example.com is let through
C7_Witness ==
    /\ verdict.called /\ verdict.origin = SubExampleCom
    /\ ~verdict.shouldBlock
    /\ HasInstantRule(ExampleCom)
    /\ response = Allow(SubExampleCom \o <<"/">>)

\* C21: on a positive verdict the interceptor records lastBlocked = the
\* blocked origin and blockReason = the verdict's reason by the time it
\* returns the redirect; on a negative verdict lastBlocked and blockReason are
\* left unchanged.
C21_PositiveVerdictRecorded ==
    [][\A url \in RequestUrls :
          (Request(url) /\ verdict'.called) =>
              IF verdict'.shouldBlock
              THEN /\ lastBlocked' = getOrigin(url)
                   /\ blockReason' = verdict'.reason
                   /\ response' = Redirect(url, REDIRECT_URL)
              ELSE /\ UNCHANGED <<lastBlocked, blockReason>>
                   /\ response' = Allow(url)]_vars

\* C21 witness: a request for example.com was redirected for its timer and
\* recorded, and a later request for sub.example.com, let through, left the
\* record as it was
C21_Witness ==
    /\ verdict.called /\ verdict.origin = SubExampleCom /\ ~verdict.shouldBlock
    /\ response = Allow(SubExampleCom \o <<"/">>)
    /\ lastBlocked = ExampleCom /\ blockReason = "timer"

\* C22: when no rule matches the origin, the decision is shouldBlock = false
\* with no reason (the empty string).
C22_NoMatchNoReason ==
    verdict.called =>
        (~(\/ HasInstantRule(verdict.origin)
           \/ HasLiveTimer(verdict.origin)
           \/ HasActiveSchedule(verdict.origin))
            => (~verdict.shouldBlock /\ verdict.reason = ""))

\* C22 witness: the origin has a timer that ended a millisecond ago and two
\* schedules, none of them active now, and the request was decided
C22_Witness ==
    /\ verdict.called /\ ~verdict.shouldBlock /\ verdict.reason = ""
    /\ verdict.origin \in DOMAIN timerBlocks
    /\ timerBlocks[verdict.origin].endTime = now - 1
    /\ Len(SchedulesOf(verdict.origin)) = 2
    /\ ~HasInstantRule(verdict.origin)

\* a value that is a well-formed "HH:mm" string
IsHHmm(time) ==
    /\ time.kind = "string"
    /\ \E m \in 0..(MinutesPerDay - 1) : time.chars = HHmm(m)

\* C30: a schedule whose startTime or endTime is malformed (missing, not a
\* string, or not parseable as HH:mm) is treated as not matching: it never
\* makes the evaluator report the origin as blocked, at any current time
\* (checked under SpecMalformed, where the schedule is the origin's only rule).
C30_MalformedNeverMatches ==
    (verdict.called /\ verdict.origin \in DOMAIN scheduledBlocks) =>
        ((\A i \in DOMAIN scheduledBlocks[verdict.origin] :
              \/ ~IsHHmm(scheduledBlocks[verdict.origin][i].startTime)
              \/ ~IsHHmm(scheduledBlocks[verdict.origin][i].endTime))
            => ~verdict.shouldBlock)

\* a schedule with an array of days and "HH:mm" times whose window holds the
\* instant t
WellFormedActive(schedule, t) ==
    /\ schedule.days.kind = "array"
    /\ IsHHmm(schedule.startTime)
    /\ IsHHmm(schedule.endTime)
    /\ ScheduleMatches(schedule, t)

\* a schedule that is not well formed
IsCorrupt(schedule) ==
    \/ schedule.days.kind # "array"
    \/ ~IsHHmm(schedule.startTime)
    \/ ~IsHHmm(schedule.endTime)

\* C31: a corrupt schedule in an origin's list does not stop the evaluation
\* of the rest: when the list holds a corrupt schedule and a well-formed
\* schedule that is active now, the decision for the origin is
\* shouldBlock = true, wherever the corrupt schedule sits in the list.
C31_CorruptDoesNotStopEvaluation ==
    (verdict.called /\ verdict.origin \in DOMAIN scheduledBlocks) =>
        LET list == scheduledBlocks[verdict.origin]
        IN ((\E i \in DOMAIN list : IsCorrupt(list[i]))
            /\ (\E i \in DOMAIN list : WellFormedActive(list[i], now)))
               => verdict.shouldBlock

\* C34: the evaluator does not shift an overnight window across the day
\* boundary: an overnight schedule that lists only weekday D is active on D
\* both from start to midnight and from midnight to end of that same D, and
\* is inactive in the early-morning portion of D+1.
C34_OvernightNotShifted ==
    LET o    == verdict.origin
        list == SchedulesOf(o)
        cur  == currentTimeInMinutes(now)
    IN (/\ verdict.called
        /\ ~HasInstantRule(o) /\ ~HasLiveTimer(o)
        /\ Len(list) = 1
        /\ ~IsSameDay(list[1])
        /\ Cardinality(list[1].days.elems) = 1)
       => LET D == CHOOSE d \in list[1].days.elems : TRUE
          IN /\ (getDay(now) = D /\ cur >= MinuteOf(list[1].startTime))
                    => verdict.shouldBlock
             /\ (getDay(now) = D /\ cur <= MinuteOf(list[1].endTime))
                    => verdict.shouldBlock
             /\ (getDay(now) = (D + 1) % 7 /\ cur <= MinuteOf(list[1].endTime))
                    => ~verdict.shouldBlock

\* C34 witness: the Monday-only 22:00-06:00 schedule evaluated on Tuesday at
\* 05:30, and the request let through
C34_Witness ==
    LET list == SchedulesOf(verdict.origin)
    IN /\ verdict.called /\ ~verdict.shouldBlock
       /\ Len(list) = 1
       /\ ~IsSameDay(list[1])
       /\ list[1].days.elems = {1}
       /\ getDay(now) = 2
       /\ currentTimeInMinutes(now) <= MinuteOf(list[1].endTime)
       /\ response.redirectUrl = NoUrl

\* a url rule whose days list the weekday of t and whose from-to window,
\* overnight when from > to, holds the minute of t
UrlRuleActive(rule, t) ==
    LET from == CHOOSE m \in WindowMinutes : HHmm(m) = rule.from
        to   == CHOOSE m \in WindowMinutes : HHmm(m) = rule.to
        cur  == currentTimeInMinutes(t)
    IN /\ DayNames[getDay(t) + 1] \in rule.days
       /\ IF from > to THEN cur >= from \/ cur <= to
          ELSE from <= cur /\ cur <= to

\* a redirect target that names its scheme
HasScheme(target) ==
    target[1] \in {"http://", "https://", "moz-extension://", "chrome-extension://"}

\* C35: in the blockedDomains rule path, a request whose full URL equals a
\* rule's url on a listed day and inside the rule's from-to window (inclusive,
\* overnight when from > to) is redirected to the rule's custom redirect
\* target when one is configured, with https:// prepended when the target has
\* no scheme, and to the internal blocked page otherwise; a request matching
\* no rule is not redirected. Of several matching rules the first one counts.
C35_UrlRuleRedirect ==
    LET url      == legacyResponse.url
        matching == { i \in DOMAIN blockedDomains :
                          /\ blockedDomains[i].url = url
                          /\ UrlRuleActive(blockedDomains[i], now) }
    IN url # NoUrl =>
           IF matching = {} THEN legacyResponse.redirectUrl = NoUrl
           ELSE LET rule == blockedDomains[CHOOSE i \in matching :
                                               \A j \in matching : i <= j]
                IN legacyResponse.redirectUrl =
                       IF rule.redirect = NoUrl THEN REDIRECT_URL
                       ELSE IF HasScheme(rule.redirect) THEN rule.redirect
                       ELSE <<"https://">> \o rule.redirect

\* C35 witness: a request in the early-morning half of an overnight rule whose
\* custom target has no scheme, redirected to the target behind https://
C35_Witness ==
    /\ \E i \in DOMAIN blockedDomains :
           /\ blockedDomains[i].url = legacyResponse.url
           /\ blockedDomains[i].redirect = <<"focus.example">>
           /\ blockedDomains[i].from = HHmm(1320)
           /\ UrlRuleActive(blockedDomains[i], now)
    /\ currentTimeInMinutes(now) <= 360
    /\ legacyResponse.redirectUrl = <<"https://", "focus.example">>

-----------------------------------------------------------------------------
(* Claims about the running system, checked under Spec *)

\* C8: after startTimer(origin, d) read the clock at t, an origin with no
\* instant rule and no schedule is timer-blocked at every time before
\* t + d minutes and not blocked at or after it, whether or not the expired
\* entry has been purged.
C8_TimerBlocksUntilExpiry ==
    \A o \in DOMAIN timerLog :
        (~HasInstantRule(o) /\ SchedulesOf(o) = <<>>) =>
            getBlockingStatus(o, blockedSites, scheduledBlocks, timerBlocks, now) =
                IF now < timerLog[o].at + timerLog[o].minutes * MsPerMinute
                THEN BlockingStatus(TRUE, "timer")
                ELSE BlockingStatus(FALSE, "")

\* C8 witness: the clock stands exactly at t + d minutes, the expired entry
\* is still stored, and the request for the origin has been let through
C8_Witness ==
    \E o \in DOMAIN timerLog :
        /\ ~HasInstantRule(o) /\ SchedulesOf(o) = <<>>
        /\ o \in DOMAIN timerBlocks
        /\ now = timerLog[o].at + timerLog[o].minutes * MsPerMinute
        /\ verdict.called /\ verdict.origin = o /\ ~verdict.shouldBlock
        /\ response = Allow(o \o <<"/">>)

-----------------------------------------------------------------------------
(* Claims about the vault, checked under SpecVault *)

\* the messages that report an incorrect credential
IncorrectCredential == {"Incorrect password.", "Incorrect password or corrupted data."}

\* C9 (as claimed): a login attempt sets isLoggedIn to true if and only if a
\* verifier is stored and the entered password equals the password of the
\* signup that wrote it; any other login leaves isLoggedIn and the verifier
\* unchanged and reports an incorrect-credential outcome.
C9_LoginIffPasswordEqual ==
    [][\A input \in Passwords, fresh \in Salts :
           login(input, fresh) =>
               LET right == /\ encryptedVerifier.present
                            /\ input = encryptedVerifier.key.passphrase
               IN /\ isLoggedIn' <=> right
                  /\ ~right => /\ isLoggedIn' = isLoggedIn
                               /\ encryptedVerifier' = encryptedVerifier
                               /\ message' \in IncorrectCredential]_vars

\* C9 (amended): a login attempt, which the popup offers only while a
\* verifier is stored, sets isLoggedIn to true if and only if the entered
\* password, trimmed, equals the trimmed password of the signup that wrote the
\* verifier; any other login leaves isLoggedIn and the verifier unchanged, and
\* reports "Enter your password." when the trimmed entry is empty and an
\* incorrect-credential message otherwise.
C9_LoginIffTrimmedPasswordEqual ==
    [][\A input \in Passwords, fresh \in Salts :
           login(input, fresh) =>
               LET right == Trim(input) = encryptedVerifier.key.passphrase
               IN /\ encryptedVerifier.present
                  /\ isLoggedIn' <=> right
                  /\ right => message' = "Welcome!"
                  /\ ~right =>
                         /\ isLoggedIn' = isLoggedIn
                         /\ encryptedVerifier' = encryptedVerifier
                         /\ IF Trim(input) = <<>>
                            THEN message' = "Enter your password."
                            ELSE message' \in IncorrectCredential]_vars

\* C9 witness: a login with the signup's password has succeeded
C9_Witness ==
    /\ encryptedVerifier.present
    /\ isLoggedIn
    /\ page = "home" /\ message = "Welcome!"

\* C10: exactly one salt exists per installation: encryptionSalt is created
\* only by the first password set, and once an encryptedVerifier is stored
\* its value never changes under any sequence of signup and login operations.
C10_SaltCreatedOnceNeverChanged ==
    [][/\ encryptionSalt' # encryptionSalt =>
              /\ encryptionSalt = ""
              /\ ~encryptedVerifier.present
              /\ encryptedVerifier'.present
       /\ encryptedVerifier.present => encryptionSalt' = encryptionSalt
       /\ encryptedVerifier'.present =>
              /\ encryptionSalt' # ""
              /\ encryptedVerifier'.key.salt = encryptionSalt']_vars

\* C10 witness: signup and then a successful login have run, and the salt is
\* the one the verifier was made under
C10_Witness ==
    /\ encryptedVerifier.present
    /\ encryptedVerifier.key.salt = encryptionSalt
    /\ encryptionSalt \in Salts
    /\ isLoggedIn
    /\ message = "Welcome!"

\* C23: signup with a password shorter than 4 characters fails with the
\* weak-password message and changes nothing: no verifier and no salt is
\* written and the credential state stays what it was.
C23_WeakPasswordRejected ==
    [][\A input \in Passwords, fresh \in Salts, iv \in IVs :
           (signup(input, fresh, iv) /\ Len(Trim(input)) < 4) =>
               /\ message' = "Password must be at least 4 characters."
               /\ page' = "signup"
               /\ UNCHANGED <<encryptedVerifier, encryptionSalt, isLoggedIn>>]_vars

\* C23 witness: the signup page reports the weak password and neither a
\* verifier nor a salt is stored
C23_Witness ==
    /\ popupOpen /\ page = "signup"
    /\ message = "Password must be at least 4 characters."
    /\ ~encryptedVerifier.present /\ encryptionSalt = ""
    /\ ~isLoggedIn

\* C24: a successful signup stores the verifier and leaves isLoggedIn not
\* true; isLoggedIn becomes true only by a successful login.
C24_SignupLeavesLoggedOut ==
    [][/\ \A input \in Passwords, fresh \in Salts, iv \in IVs :
              (signup(input, fresh, iv) /\ Len(Trim(input)) >= 4) =>
                  /\ encryptedVerifier'.present
                  /\ encryptedVerifier'.plaintext = "verify"
                  /\ encryptedVerifier'.key.passphrase = Trim(input)
                  /\ ~isLoggedIn'
       /\ (isLoggedIn' /\ ~isLoggedIn) =>
              /\ encryptedVerifier.present
              /\ \E input \in Passwords, fresh \in Salts :
                     login(input, fresh) /\ message' = "Welcome!"]_vars

\* C24 witness: right after a successful signup the popup asks for the login
C24_Witness ==
    /\ popupOpen /\ page = "login" /\ message = "Please login to continue."
    /\ encryptedVerifier.present /\ ~isLoggedIn

\* C25: when the browsing session ends isLoggedIn is cleared while
\* encryptedVerifier and encryptionSalt persist, and the popup opened after
\* that routes to the login page.
C25_LoginLastsForSession ==
    [][/\ SessionEnd =>
              /\ ~isLoggedIn'
              /\ encryptedVerifier'.present
              /\ UNCHANGED <<encryptedVerifier, encryptionSalt>>
       /\ (OpenPopup /\ encryptedVerifier.present /\ ~isLoggedIn) =>
              (page' = "login" /\ message' = "Login Page")]_vars

\* C25 witness: a url rule was stored from the home page, which only a
\* logged-in session shows; the session has ended since, and the popup opened
\* after it shows the login page
C25_Witness ==
    /\ blockedDomainsStore # <<>>
    /\ ~isLoggedIn /\ encryptedVerifier.present /\ encryptionSalt # ""
    /\ popupOpen /\ page = "login" /\ message = "Login Page"

\* C26: once an encryptedVerifier is stored no operation deletes it, and its
\* value changes only through a successful signup.
C26_VerifierNeverDeleted ==
    [][/\ encryptedVerifier.present => encryptedVerifier'.present
       /\ encryptedVerifier' # encryptedVerifier =>
              \E input \in Passwords, fresh \in Salts, iv \in IVs :
                  signup(input, fresh, iv) /\ Len(Trim(input)) >= 4]_vars

\* C26 witness: a login with a wrong password has failed and the verifier is
\* still stored
C26_Witness ==
    /\ encryptedVerifier.present
    /\ popupOpen /\ page = "login"
    /\ message = "Incorrect password or corrupted data."

\* C27: for the verifier token, decrypting an encryption made under key K
\* with the same key K returns the original plaintext, and decrypting with a
\* key derived from a different password fails with an error and never
\* returns a plaintext, right or wrong; so a login never ends in the branch
\* that a decrypted text other than the token leads to.
C27_VerifierRoundTrip ==
    /\ encryptedVerifier.present =>
           LET blob == encryptedVerifier
           IN /\ blob = encryptPassword("verify", blob.key, blob.iv)
              /\ decryptPassword(blob, blob.key) =
                     [throws |-> FALSE, text |-> "verify"]
              /\ \A q \in Passwords, salt \in Salts :
                     Trim(q) # blob.key.passphrase =>
                         decryptPassword(blob, getKeyFromPassphrase(Trim(q), salt)) =
                             [throws |-> TRUE, text |-> ""]
    /\ message # "Incorrect password."

\* C27 witness: the stored verifier has been decrypted with its own key (a
\* login succeeded and a url rule was stored in that session), and in a later
\* session the decryption under the key of another password has failed
C27_Witness ==
    /\ blockedDomainsStore # <<>>
    /\ encryptedVerifier.present /\ ~isLoggedIn
    /\ message = "Incorrect password or corrupted data."

-----------------------------------------------------------------------------
(* Claims about the timer handlers step by step, checked under SpecAsync *)

\* a timer of origin o that startTimer reported as set and that has not
\* expired
ReportedLive(o) ==
    /\ o \in DOMAIN timerLog
    /\ now < timerLog[o].at + timerLog[o].minutes * MsPerMinute

\* C11: rule-store mutations are unserialized read-modify-write sequences:
\* when cleanupExpiredTimers writes the object it read before startTimer
\* wrote, the timer that startTimer reported as set is absent from timerBlocks
\* afterwards.
C11_StaleSweepLosesTimer ==
    [][\A o \in DOMAIN timerLog :
           (/\ SweepWrite
            /\ ReportedLive(o)
            /\ o \in DOMAIN timerBlocks
            /\ o \notin DOMAIN calls.sweep.snapshot)
           => o \notin DOMAIN timerBlocks']_vars

\* C11 witness: a timer reported as set and not yet expired is absent from
\* timerBlocks, with no write of the popup involved
C11_Witness ==
    \E o \in DOMAIN timerLog :
        /\ ReportedLive(o)
        /\ o \notin DOMAIN timerBlocks
        /\ calls.sweep.pc = "idle"
        /\ calls.display.pc = "idle"
        /\ ~timerInterval

\* C12 (as claimed): every rule-store mutation reports success (redirect,
\* window close or refresh of the popup) only after its storage write has
\* completed, so whatever is evaluated after the report reads the mutated
\* rule set: once updateActiveTimerDisplay has called the refresh, timerBlocks
\* is the object it wrote.
C12_ReportAfterWrite ==
    calls.display.refreshed => timerBlocks = calls.display.value


\* the timers of the stored object that have expired at t
ExpiredAt(t) == {o \in DOMAIN timerBlocks : timerBlocks[o].endTime <= t}

\* C18: one run of cleanupExpiredTimers at time now removes exactly the timers
\* with endTime <= now and keeps every timer with endTime > now unchanged;
\* when no timer is expired it performs no storage write.
C18_SweepRemovesExactlyExpired ==
    [][/\ SweepRead =>
              IF ExpiredAt(now) = {}
              THEN calls'.sweep.pc = "idle" /\ timerBlocks' = timerBlocks
              ELSE /\ calls'.sweep.pc = "write"
                   /\ DOMAIN calls'.sweep.snapshot = DOMAIN timerBlocks \ ExpiredAt(now)
                   /\ \A o \in DOMAIN timerBlocks \ ExpiredAt(now) :
                          calls'.sweep.snapshot[o] = timerBlocks[o]
       /\ SweepWrite => timerBlocks' = calls.sweep.snapshot]_vars

\* C18 witness: in the millisecond a one-minute timer ends a sweep has removed
\* it and has kept the timer of another origin that is still running
C18_Witness ==
    /\ calls.sweep.pc = "idle"
    /\ SubExampleCom \in DOMAIN timerLog
    /\ now = timerLog[SubExampleCom].at + timerLog[SubExampleCom].minutes * MsPerMinute
    /\ SubExampleCom \notin DOMAIN timerBlocks
    /\ ExampleCom \in DOMAIN timerBlocks
    /\ timerBlocks[ExampleCom].endTime > now


\* timerBlocks holds a timer of origin o that has expired
HoldsExpired(o) == o \in DOMAIN timerBlocks /\ timerBlocks[o].endTime <= now

\* C19: every timer that has expired is eventually absent from timerBlocks
\* (checked under SpecSweep, where the periodic sweep keeps running).
C19_ExpiredEventuallyAbsent ==
    \A o \in {ExampleCom, SubExampleCom} : HoldsExpired(o) ~> ~HoldsExpired(o)

\* C19 witness: after the timer of an origin ran out, with no popup open and
\* no navigation since, the sweep has taken it out of timerBlocks
C19_Witness ==
    /\ ~popupOpen /\ response.url = NoUrl
    /\ calls = NoCalls
    /\ SubExampleCom \in DOMAIN timerLog
    /\ now > timerLog[SubExampleCom].at + timerLog[SubExampleCom].minutes * MsPerMinute
    /\ timerBlocks = <<>>

-----------------------------------------------------------------------------
(* Claims about the popup's rule mutations, checked under Spec *)

\* the rules of the three kinds that are stored for origins other than o
RulesOfOthers(o, sites, schedules, timers) ==
    << SelectSeq(sites, LAMBDA site : site # o),
       [k \in DOMAIN schedules \ {o} |-> schedules[k]],
       [k \in DOMAIN timers \ {o} |-> timers[k]] >>

\* C13: unblockSite(origin) removes the origin's instant rule, its whole
\* schedule list and its timer in one storage update: the step that removes
\* one removes all three and touches no other origin's rules, and after it
\* the decision for the origin is shouldBlock = false.
C13_UnblockRemovesAllAtOnce ==
    [][unblockSite =>
           LET o == currentOrigin
           IN /\ \A i \in DOMAIN blockedSites' : blockedSites'[i] # o
              /\ o \notin DOMAIN scheduledBlocks'
              /\ o \notin DOMAIN timerBlocks'
              /\ RulesOfOthers(o, blockedSites', scheduledBlocks', timerBlocks')
                     = RulesOfOthers(o, blockedSites, scheduledBlocks, timerBlocks)
              /\ ~getBlockingStatus(o, blockedSites', scheduledBlocks',
                                    timerBlocks', now').shouldBlock]_vars

\* C13 witness: the tab has been sent back to the unblocked origin, the popup
\* has closed, and no rule of any kind is left for the origin that was last
\* blocked
C13_Witness ==
    /\ ~popupOpen
    /\ lastBlocked # NoUrl
    /\ tabUrl = lastBlocked
    /\ ~HasInstantRule(lastBlocked)
    /\ lastBlocked \notin DOMAIN scheduledBlocks
    /\ lastBlocked \notin DOMAIN timerBlocks
    /\ lastBlocked \notin DOMAIN timerLog

\* C14: blockedSites never contains the same origin twice after any sequence
\* of blockSite, unblock and importBlocks operations, and blockSite on an
\* origin already present is a no-op that writes nothing.
C14_NoDuplicateSites ==
    [][/\ \A i, j \in DOMAIN blockedSites' :
              blockedSites'[i] = blockedSites'[j] => i = j
       /\ (blockSite /\ HasInstantRule(currentOrigin)) =>
              UNCHANGED <<storeVars, hintVars, tabUrl, popupVars>>]_vars

\* C14 witness: the popup still offers "Block This Site" for an origin that
\* an import has put into blockedSites (the refresh after the import failed on
\* a schedule without days), so blockSite meets the origin already present
C14_Witness ==
    /\ popupOpen /\ actionBtn = "block"
    /\ blockedSites = <<currentOrigin>>
    /\ currentOrigin = ExampleCom

\* C15: timerBlocks holds at most one timer per origin: startTimer on an
\* origin that already has a timer replaces it, and the new endTime is the time
\* of the latest call plus its duration, never the sum of old and new
\* durations; the timers of other origins stay as they were.
C15_StartTimerReplaces ==
    [][\A minutes \in TimerChoices :
          (startTimer(minutes) /\ minutes > 0) =>
              /\ DOMAIN timerBlocks' = DOMAIN timerBlocks \cup {currentOrigin}
              /\ timerBlocks'[currentOrigin] =
                     [endTime |-> now + minutes * MsPerMinute, duration |-> minutes]
              /\ \A o \in DOMAIN timerBlocks \ {currentOrigin} :
                     timerBlocks'[o] = timerBlocks[o]]_vars

\* C15 witness: startTimer has just replaced a timer that was still running,
\* one minute into its two, by a one-minute timer
C15_Witness ==
    \E o \in DOMAIN timerBlocks :
        /\ o \in DOMAIN timerLog /\ timerLog[o].replaced
        /\ timerLog[o].at = now /\ now > StartInstant
        /\ timerBlocks[o] = [endTime |-> now + MsPerMinute, duration |-> 1]

\* scheduledBlocks' is scheduledBlocks with the schedules of that id taken out
\* of site's list, the others in their order, and the key gone with the last
ScheduleRemoved(site, id) ==
    LET kept == SelectSeq(ListOf(scheduledBlocks, site),
                          LAMBDA schedule : schedule.id # id)
    IN  /\ DOMAIN scheduledBlocks' =
               IF kept = <<>> THEN DOMAIN scheduledBlocks \ {site}
               ELSE DOMAIN scheduledBlocks
        /\ kept # <<>> => scheduledBlocks'[site] = kept
        /\ \A o \in DOMAIN scheduledBlocks \ {site} :
               scheduledBlocks'[o] = scheduledBlocks[o]

\* C16: removing a schedule by its id, from the header or from the Manage tab,
\* removes the schedule with that id from the origin's list and leaves the
\* origin's other schedules in place; when the list becomes empty the origin's
\* key is deleted from scheduledBlocks.
C16_RemoveScheduleById ==
    [][/\ \A detail \in HeaderDetails :
              (detail[1] = "schedule" /\ removeBlockFromHeader(detail[1], detail[2]))
                  => ScheduleRemoved(currentOrigin, detail[2])
       /\ \A block \in AllBlocks :
              (block[1] = "schedule" /\ unblockFromManage(block[1], block[2], block[3]))
                  => ScheduleRemoved(block[2], block[3])]_vars

\* C16 witness: the imported site's list holds only a schedule added in the
\* popup: the imported schedule (id 1) that an import always stores for the
\* site has been removed by its id, and the added one is still there
C16_Witness ==
    /\ popupOpen /\ lastBlocked = NoUrl
    /\ blockedSites = <<ExampleCom>>
    /\ ExampleCom \in DOMAIN scheduledBlocks
    /\ Len(scheduledBlocks[ExampleCom]) = 1
    /\ scheduledBlocks[ExampleCom][1].id # 1

\* C17: in every reachable state the schedule ids within one origin's
\* schedule list are pairwise distinct.
C17_ScheduleIdsDistinct ==
    \A o \in DOMAIN scheduledBlocks :
        \A i, j \in DOMAIN scheduledBlocks[o] :
            scheduledBlocks[o][i].id = scheduledBlocks[o][j].id => i = j

\* a step of an explicit user block, removal, unblock or import
UserRuleChange ==
    \/ blockSite
    \/ unblockSite
    \/ \E form \in ScheduleForms : addSchedule(form)
    \/ \E d \in HeaderDetails : removeBlockFromHeader(d[1], d[2])
    \/ \E b \in AllBlocks : unblockFromManage(b[1], b[2], b[3])
    \/ \E importData \in ImportFiles : importBlocks(importData)

\* C29: only timers expire on their own: the periodic sweep and the
\* navigation interceptor never change blockedSites or scheduledBlocks, and
\* evaluating a decision writes none of the three rule collections; instant
\* and schedule rules change only through an explicit user block, removal,
\* unblock or import.
C29_OnlyTimersExpire ==
    [][/\ cleanupExpiredTimers => UNCHANGED <<blockedSites, scheduledBlocks>>
       /\ Visit => UNCHANGED <<blockedSites, scheduledBlocks, timerBlocks>>
       /\ (blockedSites' # blockedSites \/ scheduledBlocks' # scheduledBlocks)
              => UserRuleChange]_vars

\* C29 witness: the timer of an origin has run out and is gone from
\* timerBlocks, a request for the origin has been decided, and the origin's
\* instant rule and schedules are still stored
C29_Witness ==
    \E o \in DOMAIN timerLog :
        /\ o \notin DOMAIN timerBlocks
        /\ now >= timerLog[o].at + timerLog[o].minutes * MsPerMinute
        /\ HasInstantRule(o) /\ SchedulesOf(o) # <<>>
        /\ verdict.called /\ verdict.origin = o /\ verdict.reason = "instant"
        /\ ~popupOpen

\* C37: after a schedule or a timer of the current site is removed from the
\* Manage tab, the popup navigates the tab back to the site only if the
\* decision engine would allow that origin at that moment, i.e. no instant
\* rule, no unexpired timer and no active schedule remains for it.
C37_NavigatesBackOnlyWhenAllowed ==
    [][\A b \in AllBlocks :
           (/\ unblockFromManage(b[1], b[2], b[3])
            /\ b[1] \in {"schedule", "timer"}
            /\ b[2] = currentOrigin
            /\ tabUrl' = b[2] /\ ~popupOpen')
               => ~getBlockingStatus(b[2], blockedSites', scheduledBlocks',
                                     timerBlocks', now').shouldBlock]_vars

-----------------------------------------------------------------------------
(* Claims about the import, checked under SpecImport *)

\* the elements of an array
Elements(seq) == {seq[i] : i \in DOMAIN seq}

\* C28: after importBlocks, blockedSites is the set union of the stored and
\* the imported origins, scheduledBlocks maps each origin present in the
\* import to exactly the imported list and every other origin to its stored
\* list, and timerBlocks is unchanged; a file with neither blockedSites nor
\* scheduledBlocks leaves the whole store unchanged.
C28_ImportMerges ==
    [][\A importData \in ImportFiles :
           importBlocks(importData) =>
               IF ~importData.hasSites /\ ~importData.hasSchedules
               THEN UNCHANGED <<storeVars, hintVars>>
               ELSE /\ Elements(blockedSites') =
                           Elements(blockedSites) \cup Elements(importData.blockedSites)
                    /\ Len(blockedSites') = Cardinality(Elements(blockedSites'))
                    /\ DOMAIN scheduledBlocks' =
                           DOMAIN scheduledBlocks \cup DOMAIN importData.scheduledBlocks
                    /\ \A o \in DOMAIN importData.scheduledBlocks :
                           scheduledBlocks'[o] = importData.scheduledBlocks[o]
                    /\ \A o \in DOMAIN scheduledBlocks \ DOMAIN importData.scheduledBlocks :
                           scheduledBlocks'[o] = scheduledBlocks[o]
                    /\ UNCHANGED timerBlocks]_vars

\* C28 witness: the store held an instant rule, two schedules and a timer of
\* sub.example.com; the import has added example.com with the imported list
\* beside them and has left the stored list and the timer as they were
C28_Witness ==
    /\ blockedSites = <<SubExampleCom, ExampleCom>>
    /\ DOMAIN scheduledBlocks = {SubExampleCom, ExampleCom}
    /\ Len(scheduledBlocks[SubExampleCom]) = 2
    /\ scheduledBlocks[SubExampleCom][2].id = 2
    /\ scheduledBlocks[ExampleCom][1].days = NoDays
    /\ DOMAIN timerBlocks = {SubExampleCom}

-----------------------------------------------------------------------------
(* Claims about the keys of the rule store, checked under SpecEdge *)

\* what new URL(...).origin can return: a scheme and a host, or "null"
IsParsedOrigin(key) ==
    \/ key = NullOrigin
    \/ IsHierarchical(key) /\ HostEnd(key) = Len(key)

\* C32: a malformed site URL is rejected at the edge and never stored: every
\* key written to blockedSites, scheduledBlocks, timerBlocks or blockedDomains
\* is the result of successfully parsing a URL, never the raw unparsed input.
C32_OnlyParsedKeysStored ==
    /\ \A i \in DOMAIN blockedSites : IsParsedOrigin(blockedSites[i])
    /\ \A key \in DOMAIN scheduledBlocks : IsParsedOrigin(key)
    /\ \A key \in DOMAIN timerBlocks : IsParsedOrigin(key)
    /\ \A i \in DOMAIN blockedDomainsStore :
           /\ ParsesAsUrl(blockedDomainsStore[i].url)
           /\ Href(blockedDomainsStore[i].url) = blockedDomainsStore[i].url

-----------------------------------------------------------------------------
(* Claims about failing storage calls, checked under SpecFail *)

\* C33: when a storage read or write fails during a rule mutation, a sweep or
\* an interception, the operation is aborted and no partial state is written:
\* the persisted state is exactly what it was before the operation started.
C33_FailureWritesNothing ==
    calls.last.failed => Persisted = calls.last.before

-----------------------------------------------------------------------------
(* Claims about interleaved vault handlers, checked under SpecHandlers *)

\* C36: under every interleaving of signup and login handlers, including two
\* handlers that both find no salt stored, whenever a verifier is stored
\* (and no handler is still running) the stored salt is the one that
\* verifier's key was derived from, so that a login with the password of the
\* signup that wrote the stored verifier succeeds.
C36_StoredSaltFitsVerifier ==
    (/\ encryptedVerifier.present
     /\ \A h \in Handlers : calls.vault[h].pc = "idle")
        => /\ encryptedVerifier.key.salt = encryptionSalt
           /\ ~decryptPassword(encryptedVerifier,
                  getKeyFromPassphrase(encryptedVerifier.key.passphrase,
                                       encryptionSalt)).throws

-----------------------------------------------------------------------------
(* Claims about the popup's view of the rules, checked under SpecAgree *)

\* what isScheduleBlocked does with a list: its value, or "throws"
BackgroundScheduleResult(schedules, t) ==
    IF isScheduleBlockedThrows(schedules, t) THEN "throws"
    ELSE IF isScheduleBlocked(schedules, t) THEN "true"
    ELSE "false"

\* C38: the popup and the background agree on what is blocked: for every
\* schedule list and every current time isCurrentlyScheduleBlocked returns
\* the same value as isScheduleBlocked, and for every rule-store snapshot the
\* popup's blocked/unblocked status for an origin equals shouldBlock of
\* getBlockingStatus for that origin.
C38_PopupAgreesWithBackground ==
    /\ \A o \in DOMAIN scheduledBlocks :
           isCurrentlyScheduleBlocked(scheduledBlocks[o], now) =
               BackgroundScheduleResult(scheduledBlocks[o], now)
    /\ (popupOpen /\ currentOrigin = getOrigin(tabUrl)) =>
           /\ actionBtn \in {"block", "unblock"}
           /\ actionBtn = "unblock" <=>
                  getBlockingStatus(currentOrigin, blockedSites, scheduledBlocks,
                                    timerBlocks, now).shouldBlock

-----------------------------------------------------------------------------
(* Claims about the reach of a mutation, checked under SpecFrame *)

\* the entries of an object under the keys other than target
OtherKeys(obj, target) == [k \in DOMAIN obj \ {target} |-> obj[k]]

\* the entries of an array other than target
OtherSites(seq, target) == SelectSeq(seq, LAMBDA site : site # target)

\* the instant rules, schedule lists and timers of every origin but target
\* are what they were
OthersUnchanged(target) ==
    /\ OtherSites(blockedSites', target) = OtherSites(blockedSites, target)
    /\ OtherKeys(scheduledBlocks', target) = OtherKeys(scheduledBlocks, target)
    /\ OtherKeys(timerBlocks', target) = OtherKeys(timerBlocks, target)

\* C39: run without interleaving with another mutation, each per-origin
\* mutation (blockSite, addSchedule, startTimer, stopTimer, schedule removal,
\* unblockSite) changes only the entries of its target origin: the instant
\* rules, schedule lists and timers of every other origin are left unchanged.
C39_MutationTouchesOnlyItsOrigin ==
    [][/\ blockSite => OthersUnchanged(currentOrigin)
       /\ (\E form \in ScheduleForms : addSchedule(form))
              => OthersUnchanged(currentOrigin)
       /\ (\E minutes \in TimerChoices : startTimer(minutes))
              => OthersUnchanged(currentOrigin)
       /\ stopTimer => OthersUnchanged(currentOrigin)
       /\ (\E d \in HeaderDetails : removeBlockFromHeader(d[1], d[2]))
              => OthersUnchanged(currentOrigin)
       /\ (\A b \in AllBlocks :
               unblockFromManage(b[1], b[2], b[3]) => OthersUnchanged(b[2]))
       /\ unblockSite => OthersUnchanged(currentOrigin)]_vars

\* C39 witness: https://example.com was blocked and a timer started for it,
\* it has no schedule (any more), and https://sub.example.com keeps its
\* instant rule, its schedule and its timer
C39_Witness ==
    /\ ExampleCom \in DOMAIN timerLog
    /\ ExampleCom \in DOMAIN timerBlocks
    /\ SeqIncludes(blockedSites, ExampleCom)
    /\ SeqIncludes(blockedSites, SubExampleCom)
    /\ SubExampleCom \in DOMAIN scheduledBlocks
    /\ ExampleCom \notin DOMAIN scheduledBlocks
    /\ SubExampleCom \in DOMAIN timerBlocks
    /\ timerBlocks[SubExampleCom] = Timer(TimerEndTime(StartInstant, 2), 2)

====
